---- MODULE Spec2Model ----
(***************************************************************************)
(* MBO -> MBP-10 reconstruction: the order book (order_book.hpp), the      *)
(* level / order records (order.hpp) and the action engine                 *)
(* (action_engine.hpp).                                                    *)
(*                                                                         *)
(* Orders live in memory cells addressed by pointers.  Addresses           *)
(* 1..POOL_SIZE are the slots of OrderPool::pool_, the addresses above are *)
(* heap cells handed out by `new Order()`.  Levels thread their orders     *)
(* through the next / prev fields exactly as the source does.              *)
(*                                                                         *)
(* Not part of the state, because nothing in the program reads them        *)
(* (except the final statistics printout): the counters                    *)
(* OrderBook::total_orders_processed_ and OrderBook::price_levels_created_,*)
(* and the field Order::original_size.                                     *)
(***************************************************************************)
EXTENDS Integers, Sequences, FiniteSets, TLC

(***************************************************************************)
(* Bounds of the model and input alphabets.                                *)
(***************************************************************************)
\* number of events the engine processes in one run (caps actions_processed_)
MaxEvents == 4
\* slots in the preallocated slab (50000 in the source, scaled down so that
\* the heap fallback is exercised)
POOL_SIZE == 2

\* std::array<..., 10> cached_*_ and MBPSnapshot arrays
TOP_N == 10

\* order ids passed to the book operations
OrderIds == {1, 2, 3}
\* order ids / trade ids carried by events
EventIds == {1, 2}
Prices == {1, 2}
Sizes == {1, 2}
\* sizes passed to execute_trade
TradeSizes == {1, 2, 3}
Timestamps == {1, 2}
\* 'B', 'A', 'N' and one character that is none of them
Sides == {"B", "A", "N", "X"}
\* the seven action codes and one unknown code
ActionCodes == {"A", "M", "C", "T", "F", "R", "N", "X"}

NULL == 0
PoolPtrs == 1..POOL_SIZE
HeapPtrs == (POOL_SIZE + 1)..Cardinality(OrderIds)
AllPtrs == PoolPtrs \cup HeapPtrs

(***************************************************************************)
(* order.hpp                                                               *)
(***************************************************************************)
\* Event(ts, act, sd, px, sz, oid)
Event(ts, act, sd, px, sz, oid) ==
    [timestamp_ns |-> ts, order_id |-> oid, price_raw |-> px, size |-> sz,
     action |-> act, side |-> sd]

\* Order(oid, px, sz, ts)
Order(oid, px, sz, ts) ==
    [order_id |-> oid, price_raw |-> px, size |-> sz,
     timestamp_ns |-> ts, next |-> NULL, prev |-> NULL]

\* Order{} : value-initialised
ZeroOrder ==
    [order_id |-> 0, price_raw |-> 0, size |-> 0,
     timestamp_ns |-> 0, next |-> NULL, prev |-> NULL]

\* Level() / Level(px)
Level(px) ==
    [price_raw |-> px, total_size |-> 0, order_count |-> 0,
     first_order |-> NULL, last_order |-> NULL]

\* Order::unlink repairing the successor's link only
Order_unlink_forward(mem, p) ==
    LET nx == mem[p].next
        pv == mem[p].prev
        m1 == IF nx # NULL THEN [mem EXCEPT ![nx].prev = pv] ELSE mem
    IN  [m1 EXCEPT ![p].next = NULL, ![p].prev = NULL]

\* Order::unlink, on the memory `mem`
Order_unlink(mem, p) ==
    LET nx == mem[p].next
        pv == mem[p].prev
        m1 == IF nx # NULL THEN [mem EXCEPT ![nx].prev = pv] ELSE mem
        m2 == IF pv # NULL THEN [m1 EXCEPT ![pv].next = nx] ELSE m1
    IN  [m2 EXCEPT ![p].next = NULL, ![p].prev = NULL]

\* Level::add_order putting p at the head of the chain
Level_add_order_front(lvl, mem, p) ==
    LET linked == IF lvl.first_order = NULL
                  THEN [level |-> [lvl EXCEPT !.first_order = p, !.last_order = p],
                        mem |-> mem]
                  ELSE [level |-> [lvl EXCEPT !.first_order = p],
                        mem |-> [mem EXCEPT ![lvl.first_order].prev = p,
                                            ![p].next = lvl.first_order]]
    IN  [level |-> [linked.level EXCEPT
                        !.total_size = @ + mem[p].size,
                        !.order_count = @ + 1],
         mem |-> linked.mem]

\* Level::add_order : [level, mem] after appending p at the tail
Level_add_order(lvl, mem, p) ==
    LET linked == IF lvl.first_order = NULL
                  THEN [level |-> [lvl EXCEPT !.first_order = p, !.last_order = p],
                        mem |-> mem]
                  ELSE [level |-> [lvl EXCEPT !.last_order = p],
                        mem |-> [mem EXCEPT ![lvl.last_order].next = p,
                                            ![p].prev = lvl.last_order]]
    IN  [level |-> [linked.level EXCEPT
                        !.total_size = @ + mem[p].size,
                        !.order_count = @ + 1],
         mem |-> linked.mem]

\* Level::remove_order leaving total_size as it was
Level_remove_order_keep_total(lvl, mem, p) ==
    LET l1 == IF p = lvl.first_order THEN [lvl EXCEPT !.first_order = mem[p].next] ELSE lvl
        l2 == IF p = lvl.last_order THEN [l1 EXCEPT !.last_order = mem[p].prev] ELSE l1
    IN  [level |-> [l2 EXCEPT !.order_count = @ - 1],
         mem |-> Order_unlink(mem, p)]

\* Level::remove_order
Level_remove_order(lvl, mem, p) ==
    LET l1 == IF p = lvl.first_order THEN [lvl EXCEPT !.first_order = mem[p].next] ELSE lvl
        l2 == IF p = lvl.last_order THEN [l1 EXCEPT !.last_order = mem[p].prev] ELSE l1
    IN  [level |-> [l2 EXCEPT !.total_size = @ - mem[p].size,
                              !.order_count = @ - 1],
         mem |-> Order_unlink(mem, p)]

\* Level::modify_order_size forgetting to add the new size back
Level_modify_order_size_drop(lvl, old_size, new_size) ==
    [lvl EXCEPT !.total_size = @ - old_size]

\* Level::modify_order_size
Level_modify_order_size(lvl, old_size, new_size) ==
    [lvl EXCEPT !.total_size = (@ - old_size) + new_size]

\* Level::empty
Level_empty(lvl) == lvl.order_count = 0

\* BidComparator / AskComparator: TRUE when a is visited before b
BidComparator(a, b) == a > b
AskComparator(a, b) == a < b

(***************************************************************************)
(* std::map helpers                                                        *)
(***************************************************************************)
MapPut(m, k, v) == [x \in (DOMAIN m) \cup {k} |-> IF x = k THEN v ELSE m[x]]
MapErase(m, k) == [x \in (DOMAIN m) \ {k} |-> m[x]]
EmptyMap == [x \in {} |-> 0]

\* keys of a side map in iteration order (begin() first)
RECURSIVE KeysInOrder(_, _)
KeysInOrder(keys, side) ==
    IF keys = {} THEN <<>>
    ELSE LET k == CHOOSE c \in keys : \A d \in keys \ {c} :
                      IF side = "B" THEN BidComparator(c, d) ELSE AskComparator(c, d)
         IN  <<k>> \o KeysInOrder(keys \ {k}, side)

(***************************************************************************)
(* The book as a value: one field per data member of OrderBook / OrderPool *)
(***************************************************************************)
ZeroArray == [i \in 1..TOP_N |-> 0]

\* OrderBook::OrderBook and OrderPool::OrderPool
NewBook ==
    [bid_levels_ |-> EmptyMap,
     ask_levels_ |-> EmptyMap,
     order_map_ |-> EmptyMap,
     pool_ |-> [p \in AllPtrs |-> ZeroOrder],
     free_list_ |-> [i \in 1..POOL_SIZE |-> i],
     heap_ |-> {},
     cached_bid_prices_ |-> ZeroArray,
     cached_bid_sizes_ |-> ZeroArray,
     cached_ask_prices_ |-> ZeroArray,
     cached_ask_sizes_ |-> ZeroArray,
     cache_valid_ |-> FALSE]

SideLevels(b, side) == IF side = "B" THEN b.bid_levels_ ELSE b.ask_levels_
WithSideLevels(b, side, lv) ==
    IF side = "B" THEN [b EXCEPT !.bid_levels_ = lv] ELSE [b EXCEPT !.ask_levels_ = lv]

\* OrderPool::allocate taking the slot at the front of the free list
OrderPool_allocate_front(b) ==
    IF b.free_list_ # <<>>
    THEN [book |-> [b EXCEPT !.free_list_ = Tail(@)], ptr |-> Head(b.free_list_)]
    ELSE LET p == CHOOSE h \in HeapPtrs \ b.heap_ :
                      \A g \in HeapPtrs \ b.heap_ : h <= g
         IN  [book |-> [b EXCEPT !.heap_ = @ \cup {p}], ptr |-> p]

\* OrderPool::allocate
OrderPool_allocate(b) ==
    IF b.free_list_ # <<>>
    THEN [book |-> [b EXCEPT !.free_list_ = SubSeq(@, 1, Len(@) - 1)],
          ptr |-> b.free_list_[Len(b.free_list_)]]
    ELSE LET p == CHOOSE h \in HeapPtrs \ b.heap_ :
                      \A g \in HeapPtrs \ b.heap_ : h <= g
         IN  [book |-> [b EXCEPT !.heap_ = @ \cup {p}], ptr |-> p]

\* OrderPool::deallocate
OrderPool_deallocate(b, p) ==
    IF p >= 1 /\ p < POOL_SIZE + 1
    THEN [b EXCEPT !.pool_[p] = ZeroOrder, !.free_list_ = Append(@, p)]
    ELSE [b EXCEPT !.pool_[p] = ZeroOrder, !.heap_ = @ \ {p}]

\* the pointers met walking a chain from p through next (at most n steps)
RECURSIVE ChainFrom(_, _, _)
ChainFrom(mem, p, n) ==
    IF p = NULL \/ n = 0 THEN <<>>
    ELSE <<p>> \o ChainFrom(mem, mem[p].next, n - 1)

SeqToSet(s) == {s[i] : i \in DOMAIN s}

\* add_to_side queueing the order on the opposite side
add_to_side_opposite(b, p, side) ==
    LET other == IF side = "B" THEN "A" ELSE "B"
        levels == SideLevels(b, other)
        px == b.pool_[p].price_raw
        lv0 == IF px \in DOMAIN levels THEN levels[px] ELSE Level(0)
        lv1 == IF Level_empty(lv0) THEN [lv0 EXCEPT !.price_raw = px] ELSE lv0
        r == Level_add_order(lv1, b.pool_, p)
    IN  [book |-> [WithSideLevels(b, other, MapPut(levels, px, r.level))
                       EXCEPT !.pool_ = r.mem],
         ok |-> TRUE]

\* OrderBook::add_to_side
add_to_side(b, p, side) ==
    LET levels == SideLevels(b, side)
        px == b.pool_[p].price_raw
        lv0 == IF px \in DOMAIN levels THEN levels[px] ELSE Level(0)
        lv1 == IF Level_empty(lv0) THEN [lv0 EXCEPT !.price_raw = px] ELSE lv0
        r == Level_add_order(lv1, b.pool_, p)
    IN  [book |-> [WithSideLevels(b, side, MapPut(levels, px, r.level))
                       EXCEPT !.pool_ = r.mem],
         ok |-> TRUE]

\* determine_side answering by the price alone, without walking the chain
determine_side_by_price(b, p) ==
    IF b.pool_[p].price_raw \in DOMAIN b.bid_levels_ THEN "B" ELSE "A"

\* OrderBook::determine_side
determine_side(b, p) ==
    LET px == b.pool_[p].price_raw
    IN  IF px \in DOMAIN b.bid_levels_
           /\ p \in SeqToSet(ChainFrom(b.pool_, b.bid_levels_[px].first_order,
                                       Cardinality(AllPtrs)))
        THEN "B" ELSE "A"

\* remove_order_from_level leaving a level in the map after its last order left
remove_order_from_level_keep(b, p, side) ==
    LET sd == IF side = "B" THEN "B" ELSE "A"
        levels == SideLevels(b, sd)
        px == b.pool_[p].price_raw
    IN  IF px \in DOMAIN levels
        THEN LET r == Level_remove_order(levels[px], b.pool_, p)
             IN  [WithSideLevels(b, sd, MapPut(levels, px, r.level)) EXCEPT !.pool_ = r.mem]
        ELSE b

\* OrderBook::remove_order_from_level
remove_order_from_level(b, p, side) ==
    LET sd == IF side = "B" THEN "B" ELSE "A"
        levels == SideLevels(b, sd)
        px == b.pool_[p].price_raw
    IN  IF px \in DOMAIN levels
        THEN LET r == Level_remove_order(levels[px], b.pool_, p)
                 lv == IF Level_empty(r.level)
                       THEN MapErase(levels, px)
                       ELSE MapPut(levels, px, r.level)
             IN  [WithSideLevels(b, sd, lv) EXCEPT !.pool_ = r.mem]
        ELSE b

\* add_order keeping the cell of an order whose side it turned down
add_order_leak(b, order_id, price, size, side, timestamp) ==
    IF order_id \in DOMAIN b.order_map_
    THEN [book |-> b, ok |-> FALSE]
    ELSE LET a == OrderPool_allocate(b)
             b1 == [a.book EXCEPT !.pool_[a.ptr] = Order(order_id, price, size, timestamp)]
             r == IF side = "B" THEN add_to_side(b1, a.ptr, "B")
                  ELSE IF side = "A" THEN add_to_side(b1, a.ptr, "A")
                  ELSE [book |-> b1, ok |-> FALSE]
         IN  IF r.ok
             THEN [book |-> [r.book EXCEPT
                                 !.order_map_ = MapPut(@, order_id, a.ptr),
                                 !.cache_valid_ = FALSE],
                   ok |-> TRUE]
             ELSE [book |-> r.book, ok |-> FALSE]

\* OrderBook::add_order
add_order(b, order_id, price, size, side, timestamp) ==
    IF order_id \in DOMAIN b.order_map_
    THEN [book |-> b, ok |-> FALSE]
    ELSE LET a == OrderPool_allocate(b)
             b1 == [a.book EXCEPT !.pool_[a.ptr] = Order(order_id, price, size, timestamp)]
             r == IF side = "B" THEN add_to_side(b1, a.ptr, "B")
                  ELSE IF side = "A" THEN add_to_side(b1, a.ptr, "A")
                  ELSE [book |-> b1, ok |-> FALSE]
         IN  IF r.ok
             THEN [book |-> [r.book EXCEPT
                                 !.order_map_ = MapPut(@, order_id, a.ptr),
                                 !.cache_valid_ = FALSE],
                   ok |-> TRUE]
             ELSE [book |-> OrderPool_deallocate(r.book, a.ptr), ok |-> FALSE]

\* modify_order forgetting the new size when the price changes
modify_order_keep_size(b, order_id, new_price, new_size) ==
    IF order_id \notin DOMAIN b.order_map_
    THEN [book |-> b, ok |-> FALSE]
    ELSE LET p == b.order_map_[order_id]
             old_price == b.pool_[p].price_raw
             old_size == b.pool_[p].size
             side == determine_side(b, p)
         IN  IF old_price # new_price
             THEN LET b1 == remove_order_from_level(b, p, side)
                      b2 == [b1 EXCEPT !.pool_[p].price_raw = new_price]
                      r == IF side = "B" THEN add_to_side(b2, p, "B")
                           ELSE add_to_side(b2, p, "A")
                  IN  [book |-> [r.book EXCEPT !.cache_valid_ = FALSE], ok |-> TRUE]
             ELSE LET sd == IF side = "B" THEN "B" ELSE "A"
                      levels == SideLevels(b, sd)
                      b1 == IF old_price \in DOMAIN levels
                            THEN [WithSideLevels(b, sd,
                                      MapPut(levels, old_price,
                                             Level_modify_order_size(levels[old_price],
                                                                     old_size, new_size)))
                                    EXCEPT !.pool_[p].size = new_size]
                            ELSE b
                  IN  [book |-> [b1 EXCEPT !.cache_valid_ = FALSE], ok |-> TRUE]

\* modify_order taking the order out and queueing it again on every call
modify_order_requeue(b, order_id, new_price, new_size) ==
    IF order_id \notin DOMAIN b.order_map_
    THEN [book |-> b, ok |-> FALSE]
    ELSE LET p == b.order_map_[order_id]
             side == determine_side(b, p)
             b1 == remove_order_from_level(b, p, side)
             b2 == [b1 EXCEPT !.pool_[p].price_raw = new_price,
                              !.pool_[p].size = new_size]
             r == IF side = "B" THEN add_to_side(b2, p, "B")
                  ELSE add_to_side(b2, p, "A")
         IN  [book |-> [r.book EXCEPT !.cache_valid_ = FALSE], ok |-> TRUE]

\* OrderBook::modify_order
modify_order(b, order_id, new_price, new_size) ==
    IF order_id \notin DOMAIN b.order_map_
    THEN [book |-> b, ok |-> FALSE]
    ELSE LET p == b.order_map_[order_id]
             old_price == b.pool_[p].price_raw
             old_size == b.pool_[p].size
             side == determine_side(b, p)
         IN  IF old_price # new_price
             THEN LET b1 == remove_order_from_level(b, p, side)
                      b2 == [b1 EXCEPT !.pool_[p].price_raw = new_price,
                                       !.pool_[p].size = new_size]
                      r == IF side = "B" THEN add_to_side(b2, p, "B")
                           ELSE add_to_side(b2, p, "A")
                  IN  IF ~r.ok
                      THEN [book |-> OrderPool_deallocate(
                                         [r.book EXCEPT !.order_map_ = MapErase(@, order_id)], p),
                            ok |-> FALSE]
                      ELSE [book |-> [r.book EXCEPT !.cache_valid_ = FALSE], ok |-> TRUE]
             ELSE LET sd == IF side = "B" THEN "B" ELSE "A"
                      levels == SideLevels(b, sd)
                      b1 == IF old_price \in DOMAIN levels
                            THEN [WithSideLevels(b, sd,
                                      MapPut(levels, old_price,
                                             Level_modify_order_size(levels[old_price],
                                                                     old_size, new_size)))
                                    EXCEPT !.pool_[p].size = new_size]
                            ELSE b
                  IN  [book |-> [b1 EXCEPT !.cache_valid_ = FALSE], ok |-> TRUE]

\* cancel_order forgetting order_map_.erase(it)
cancel_order_no_erase(b, order_id) ==
    IF order_id \notin DOMAIN b.order_map_
    THEN [book |-> b, ok |-> FALSE]
    ELSE LET p == b.order_map_[order_id]
             side == determine_side(b, p)
             b1 == remove_order_from_level(b, p, side)
             b3 == OrderPool_deallocate(b1, p)
         IN  [book |-> [b3 EXCEPT !.cache_valid_ = FALSE], ok |-> TRUE]

\* OrderBook::cancel_order
cancel_order(b, order_id) ==
    IF order_id \notin DOMAIN b.order_map_
    THEN [book |-> b, ok |-> FALSE]
    ELSE LET p == b.order_map_[order_id]
             side == determine_side(b, p)
             b1 == remove_order_from_level(b, p, side)
             b2 == [b1 EXCEPT !.order_map_ = MapErase(@, order_id)]
             b3 == OrderPool_deallocate(b2, p)
         IN  [book |-> [b3 EXCEPT !.cache_valid_ = FALSE], ok |-> TRUE]

\* the while loop of OrderBook::execute_trade_on_side, on the level at `price`
\* of side `sd`; yields the book with that level updated (never erased here)
RECURSIVE trade_loop(_, _, _, _)
trade_loop(b, sd, price, remaining_size) ==
    LET level == SideLevels(b, sd)[price]
        p == level.first_order
    IN  IF ~(remaining_size > 0 /\ p # NULL)
        THEN b
        ELSE IF b.pool_[p].size <= remaining_size
             THEN LET b1 == [b EXCEPT !.order_map_ = MapErase(@, b.pool_[p].order_id)]
                      r == Level_remove_order(level, b1.pool_, p)
                      b2 == [WithSideLevels(b1, sd, MapPut(SideLevels(b1, sd), price, r.level))
                               EXCEPT !.pool_ = r.mem]
                      b3 == OrderPool_deallocate(b2, p)
                  IN  trade_loop(b3, sd, price, remaining_size - b.pool_[p].size)
             ELSE LET old_size == b.pool_[p].size
                      new_size == old_size - remaining_size
                      b1 == [b EXCEPT !.pool_[p].size = new_size]
                      lv == Level_modify_order_size(level, old_size, new_size)
                      b2 == WithSideLevels(b1, sd, MapPut(SideLevels(b1, sd), price, lv))
                  IN  trade_loop(b2, sd, price, 0)

\* execute_trade_on_side forgetting cache_valid_ = false
execute_trade_on_side_stale(b, price, size, sd) ==
    IF price \notin DOMAIN SideLevels(b, sd)
    THEN [book |-> b, ok |-> FALSE]
    ELSE LET b1 == trade_loop(b, sd, price, size)
             b2 == IF Level_empty(SideLevels(b1, sd)[price])
                   THEN WithSideLevels(b1, sd, MapErase(SideLevels(b1, sd), price))
                   ELSE b1
         IN  [book |-> b2, ok |-> TRUE]

\* execute_trade_on_side refusing a trade larger than the level's depth
execute_trade_on_side_strict(b, price, size, sd) ==
    IF price \notin DOMAIN SideLevels(b, sd) \/ size > SideLevels(b, sd)[price].total_size
    THEN [book |-> b, ok |-> FALSE]
    ELSE LET b1 == trade_loop(b, sd, price, size)
             b2 == IF Level_empty(SideLevels(b1, sd)[price])
                   THEN WithSideLevels(b1, sd, MapErase(SideLevels(b1, sd), price))
                   ELSE b1
         IN  [book |-> [b2 EXCEPT !.cache_valid_ = FALSE], ok |-> TRUE]

\* OrderBook::execute_trade_on_side
execute_trade_on_side(b, price, size, sd) ==
    IF price \notin DOMAIN SideLevels(b, sd)
    THEN [book |-> b, ok |-> FALSE]
    ELSE LET b1 == trade_loop(b, sd, price, size)
             b2 == IF Level_empty(SideLevels(b1, sd)[price])
                   THEN WithSideLevels(b1, sd, MapErase(SideLevels(b1, sd), price))
                   ELSE b1
         IN  [book |-> [b2 EXCEPT !.cache_valid_ = FALSE], ok |-> TRUE]

\* execute_trade taking the bid side as passive only for aggressor A
execute_trade_else_ask(b, price, size, aggressor_side) ==
    LET passive_side == IF aggressor_side = "A" THEN "B" ELSE "A"
    IN  IF passive_side = "B"
        THEN execute_trade_on_side(b, price, size, "B")
        ELSE execute_trade_on_side(b, price, size, "A")

\* OrderBook::execute_trade
execute_trade(b, price, size, aggressor_side) ==
    LET passive_side == IF aggressor_side = "B" THEN "A" ELSE "B"
    IN  IF passive_side = "B"
        THEN execute_trade_on_side(b, price, size, "B")
        ELSE execute_trade_on_side(b, price, size, "A")

\* the orders in which the range-for of clear() can visit order_map_
\* (robin_hood::unordered_flat_map gives no iteration order)
IterationOrders(b) ==
    LET ids == DOMAIN b.order_map_
    IN  {s \in [1..Cardinality(ids) -> ids] : \A i, j \in DOMAIN s : i # j => s[i] # s[j]}

RECURSIVE deallocate_all(_, _, _)
deallocate_all(b, visit, i) ==
    IF i > Len(visit) THEN b
    ELSE deallocate_all(OrderPool_deallocate(b, b.order_map_[visit[i]]), visit, i + 1)

\* OrderBook::clear, visiting order_map_ in the order `visit`
clear(b, visit) ==
    [deallocate_all(b, visit, 1) EXCEPT
        !.order_map_ = EmptyMap,
        !.bid_levels_ = EmptyMap,
        !.ask_levels_ = EmptyMap,
        !.cache_valid_ = FALSE]

\* one cached price array: the keys of the first TOP_N levels of a side
CachePrices(levels, side) ==
    LET keys == KeysInOrder(DOMAIN levels, side)
    IN  [i \in 1..TOP_N |-> IF i <= Len(keys) THEN keys[i] ELSE 0]

\* one cached size array: the total_size of the first TOP_N levels of a side
CacheSizes(levels, side) ==
    LET keys == KeysInOrder(DOMAIN levels, side)
    IN  [i \in 1..TOP_N |-> IF i <= Len(keys) THEN levels[keys[i]].total_size ELSE 0]

\* OrderBook::update_cache
update_cache(b) ==
    [b EXCEPT
        !.cached_bid_prices_ = CachePrices(b.bid_levels_, "B"),
        !.cached_bid_sizes_ = CacheSizes(b.bid_levels_, "B"),
        !.cached_ask_prices_ = CachePrices(b.ask_levels_, "A"),
        !.cached_ask_sizes_ = CacheSizes(b.ask_levels_, "A"),
        !.cache_valid_ = TRUE]

\* get_top10_snapshot copying the arrays out before it refreshes the cache
get_top10_snapshot_copy_first(b) ==
    LET b1 == IF ~b.cache_valid_ THEN update_cache(b) ELSE b
    IN  [book |-> b1,
         snapshot |-> [bid_px |-> b.cached_bid_prices_, bid_sz |-> b.cached_bid_sizes_,
                       ask_px |-> b.cached_ask_prices_, ask_sz |-> b.cached_ask_sizes_]]

\* OrderBook::get_top10_snapshot : the book afterwards and the arrays copied out
get_top10_snapshot(b) ==
    LET b1 == IF ~b.cache_valid_ THEN update_cache(b) ELSE b
    IN  [book |-> b1,
         snapshot |-> [bid_px |-> b1.cached_bid_prices_, bid_sz |-> b1.cached_bid_sizes_,
                       ask_px |-> b1.cached_ask_prices_, ask_sz |-> b1.cached_ask_sizes_]]

\* OrderBook::get_best_bid / get_best_ask : <<price, total_size>>
get_best_bid(b) ==
    IF DOMAIN b.bid_levels_ = {} THEN <<0, 0>>
    ELSE LET k == KeysInOrder(DOMAIN b.bid_levels_, "B")[1]
         IN  <<k, b.bid_levels_[k].total_size>>
get_best_ask(b) ==
    IF DOMAIN b.ask_levels_ = {} THEN <<0, 0>>
    ELSE LET k == KeysInOrder(DOMAIN b.ask_levels_, "A")[1]
         IN  <<k, b.ask_levels_[k].total_size>>

\* OrderBook::get_active_orders / get_price_levels
get_active_orders(b) == Cardinality(DOMAIN b.order_map_)
get_price_levels(b) == Cardinality(DOMAIN b.bid_levels_) + Cardinality(DOMAIN b.ask_levels_)

(***************************************************************************)
(* action_engine.hpp                                                       *)
(***************************************************************************)
\* TradeInfo(ts, tid, px, sz, sd)
TradeInfo(ts, tid, px, sz, sd) ==
    [timestamp_ns |-> ts, trade_id |-> tid, price_raw |-> px, size |-> sz,
     side |-> sd, is_aggressor_fill |-> FALSE]

\* std::optional<TradeInfo>: <<>> is nullopt, <<t>> holds t
Nullopt == <<>>
HasValue(opt) == opt # <<>>

\* ActionEngine::ActionEngine
NewEngine ==
    [trade_state_ |-> "IDLE",
     pending_trade_ |-> Nullopt,
     last_trade_id_ |-> 0,
     actions_processed_ |-> 0,
     trades_aggregated_ |-> 0,
     errors_encountered_ |-> 0,
     first_clear_seen_ |-> FALSE]

\* Every handler yields [engine, book, ret]: the engine and the book after
\* the call and the value returned.

\* handle_add abandoning the trade sequence it arrives in
handle_add_abort(eng, b, event) ==
    IF event.side = "N"
    THEN [engine |-> eng, book |-> b, ret |-> FALSE]
    ELSE LET r == add_order(b, event.order_id, event.price_raw, event.size,
                            event.side, event.timestamp_ns)
             e1 == [eng EXCEPT !.trade_state_ = "IDLE", !.pending_trade_ = Nullopt]
         IN  [engine |-> IF ~r.ok THEN [e1 EXCEPT !.errors_encountered_ = @ + 1] ELSE e1,
              book |-> r.book,
              ret |-> r.ok]

\* handle_add never reporting a snapshot-worthy change
handle_add_silent(eng, b, event) ==
    IF event.side = "N"
    THEN [engine |-> eng, book |-> b, ret |-> FALSE]
    ELSE LET r == add_order(b, event.order_id, event.price_raw, event.size,
                            event.side, event.timestamp_ns)
         IN  [engine |-> IF ~r.ok THEN [eng EXCEPT !.errors_encountered_ = @ + 1] ELSE eng,
              book |-> r.book,
              ret |-> FALSE]

\* ActionEngine::handle_add
handle_add(eng, b, event) ==
    IF event.side = "N"
    THEN [engine |-> eng, book |-> b, ret |-> FALSE]
    ELSE LET r == add_order(b, event.order_id, event.price_raw, event.size,
                            event.side, event.timestamp_ns)
         IN  [engine |-> IF ~r.ok THEN [eng EXCEPT !.errors_encountered_ = @ + 1] ELSE eng,
              book |-> r.book,
              ret |-> r.ok]

\* handle_modify never reporting a modify as snapshot-worthy
handle_modify_quiet(eng, b, event) ==
    IF event.side = "N"
    THEN [engine |-> eng, book |-> b, ret |-> FALSE]
    ELSE LET r == modify_order(b, event.order_id, event.price_raw, event.size)
         IN  [engine |-> IF ~r.ok THEN [eng EXCEPT !.errors_encountered_ = @ + 1] ELSE eng,
              book |-> r.book,
              ret |-> FALSE]

\* handle_modify aborting a trade sequence it interrupts
handle_modify_abort(eng, b, event) ==
    IF eng.trade_state_ # "IDLE"
    THEN [engine |-> [eng EXCEPT !.trade_state_ = "IDLE",
                                 !.pending_trade_ = Nullopt,
                                 !.errors_encountered_ = @ + 1],
          book |-> b, ret |-> FALSE]
    ELSE IF event.side = "N"
    THEN [engine |-> eng, book |-> b, ret |-> FALSE]
    ELSE LET r == modify_order(b, event.order_id, event.price_raw, event.size)
         IN  [engine |-> IF ~r.ok THEN [eng EXCEPT !.errors_encountered_ = @ + 1] ELSE eng,
              book |-> r.book,
              ret |-> r.ok]

\* ActionEngine::handle_modify
handle_modify(eng, b, event) ==
    IF event.side = "N"
    THEN [engine |-> eng, book |-> b, ret |-> FALSE]
    ELSE LET r == modify_order(b, event.order_id, event.price_raw, event.size)
         IN  [engine |-> IF ~r.ok THEN [eng EXCEPT !.errors_encountered_ = @ + 1] ELSE eng,
              book |-> r.book,
              ret |-> r.ok]

\* complete_trade_sequence replaying the price and size of the C event
complete_trade_sequence_from_cancel(eng, b, cancel_event) ==
    IF ~HasValue(eng.pending_trade_) \/ eng.trade_state_ # "FILL_RECEIVED"
    THEN [engine |-> [eng EXCEPT !.errors_encountered_ = @ + 1,
                                 !.trade_state_ = "IDLE",
                                 !.pending_trade_ = Nullopt],
          book |-> b,
          ret |-> FALSE]
    ELSE LET t == eng.pending_trade_[1]
             r == execute_trade(b, cancel_event.price_raw, cancel_event.size, t.side)
             e1 == IF ~r.ok THEN [eng EXCEPT !.errors_encountered_ = @ + 1]
                   ELSE [eng EXCEPT !.trades_aggregated_ = @ + 1]
         IN  [engine |-> [e1 EXCEPT !.trade_state_ = "IDLE", !.pending_trade_ = Nullopt],
              book |-> r.book,
              ret |-> r.ok]

\* complete_trade_sequence reporting every completion as snapshot-worthy
complete_trade_sequence_true(eng, b, cancel_event) ==
    IF ~HasValue(eng.pending_trade_) \/ eng.trade_state_ # "FILL_RECEIVED"
    THEN [engine |-> [eng EXCEPT !.errors_encountered_ = @ + 1,
                                 !.trade_state_ = "IDLE",
                                 !.pending_trade_ = Nullopt],
          book |-> b,
          ret |-> FALSE]
    ELSE LET t == eng.pending_trade_[1]
             r == execute_trade(b, t.price_raw, t.size, t.side)
             e1 == IF ~r.ok THEN [eng EXCEPT !.errors_encountered_ = @ + 1]
                   ELSE [eng EXCEPT !.trades_aggregated_ = @ + 1]
         IN  [engine |-> [e1 EXCEPT !.trade_state_ = "IDLE", !.pending_trade_ = Nullopt],
              book |-> r.book,
              ret |-> TRUE]

\* ActionEngine::complete_trade_sequence
complete_trade_sequence(eng, b, cancel_event) ==
    IF ~HasValue(eng.pending_trade_) \/ eng.trade_state_ # "FILL_RECEIVED"
    THEN [engine |-> [eng EXCEPT !.errors_encountered_ = @ + 1,
                                 !.trade_state_ = "IDLE",
                                 !.pending_trade_ = Nullopt],
          book |-> b,
          ret |-> FALSE]
    ELSE LET t == eng.pending_trade_[1]
             r == execute_trade(b, t.price_raw, t.size, t.side)
             e1 == IF ~r.ok THEN [eng EXCEPT !.errors_encountered_ = @ + 1]
                   ELSE [eng EXCEPT !.trades_aggregated_ = @ + 1]
         IN  [engine |-> [e1 EXCEPT !.trade_state_ = "IDLE", !.pending_trade_ = Nullopt],
              book |-> r.book,
              ret |-> r.ok]

\* handle_cancel reporting every plain cancel as snapshot-worthy
handle_cancel_true(eng, b, event) ==
    IF eng.trade_state_ = "FILL_RECEIVED"
    THEN complete_trade_sequence(eng, b, event)
    ELSE LET r == cancel_order(b, event.order_id)
         IN  [engine |-> IF ~r.ok THEN [eng EXCEPT !.errors_encountered_ = @ + 1] ELSE eng,
              book |-> r.book,
              ret |-> TRUE]

\* ActionEngine::handle_cancel
handle_cancel(eng, b, event) ==
    IF eng.trade_state_ = "FILL_RECEIVED"
    THEN complete_trade_sequence(eng, b, event)
    ELSE LET r == cancel_order(b, event.order_id)
         IN  [engine |-> IF ~r.ok THEN [eng EXCEPT !.errors_encountered_ = @ + 1] ELSE eng,
              book |-> r.book,
              ret |-> r.ok]

\* handle_trade keeping a trade that is already buffered
handle_trade_keep(eng, b, event) ==
    [engine |-> [eng EXCEPT
                    !.trade_state_ = "TRADE_RECEIVED",
                    !.pending_trade_ =
                        IF HasValue(@) THEN @
                        ELSE <<TradeInfo(event.timestamp_ns, event.order_id,
                                         event.price_raw, event.size, event.side)>>,
                    !.last_trade_id_ = event.order_id],
     book |-> b,
     ret |-> FALSE]

\* ActionEngine::handle_trade
handle_trade(eng, b, event) ==
    [engine |-> [eng EXCEPT
                    !.trade_state_ = "TRADE_RECEIVED",
                    !.pending_trade_ = <<TradeInfo(event.timestamp_ns, event.order_id,
                                                   event.price_raw, event.size, event.side)>>,
                    !.last_trade_id_ = event.order_id],
     book |-> b,
     ret |-> FALSE]

\* handle_fill going back to IDLE on a mismatch with the trade still pending
handle_fill_keep_pending(eng, b, event) ==
    IF eng.trade_state_ # "TRADE_RECEIVED"
    THEN [engine |-> [eng EXCEPT !.errors_encountered_ = @ + 1], book |-> b, ret |-> FALSE]
    ELSE IF HasValue(eng.pending_trade_) /\ event.order_id = eng.last_trade_id_
         THEN [engine |-> [eng EXCEPT !.trade_state_ = "FILL_RECEIVED",
                                      !.pending_trade_[1].is_aggressor_fill = TRUE],
               book |-> b, ret |-> FALSE]
         ELSE [engine |-> [eng EXCEPT !.trade_state_ = "IDLE",
                                      !.errors_encountered_ = @ + 1],
               book |-> b, ret |-> FALSE]

\* handle_fill accepting the matching F without moving to FILL_RECEIVED
handle_fill_no_advance(eng, b, event) ==
    IF eng.trade_state_ # "TRADE_RECEIVED"
    THEN [engine |-> [eng EXCEPT !.errors_encountered_ = @ + 1], book |-> b, ret |-> FALSE]
    ELSE IF HasValue(eng.pending_trade_) /\ event.order_id = eng.last_trade_id_
         THEN [engine |-> [eng EXCEPT !.pending_trade_[1].is_aggressor_fill = TRUE],
               book |-> b, ret |-> FALSE]
         ELSE [engine |-> [eng EXCEPT !.trade_state_ = "IDLE",
                                      !.pending_trade_ = Nullopt,
                                      !.errors_encountered_ = @ + 1],
               book |-> b, ret |-> FALSE]

\* ActionEngine::handle_fill
handle_fill(eng, b, event) ==
    IF eng.trade_state_ # "TRADE_RECEIVED"
    THEN [engine |-> [eng EXCEPT !.errors_encountered_ = @ + 1], book |-> b, ret |-> FALSE]
    ELSE IF HasValue(eng.pending_trade_) /\ event.order_id = eng.last_trade_id_
         THEN [engine |-> [eng EXCEPT !.trade_state_ = "FILL_RECEIVED",
                                      !.pending_trade_[1].is_aggressor_fill = TRUE],
               book |-> b, ret |-> FALSE]
         ELSE [engine |-> [eng EXCEPT !.trade_state_ = "IDLE",
                                      !.pending_trade_ = Nullopt,
                                      !.errors_encountered_ = @ + 1],
               book |-> b, ret |-> FALSE]

\* handle_clear emptying the book but leaving the trade sequence as it is
handle_clear_keep_trade(eng, b, event, visit) ==
    IF ~eng.first_clear_seen_
    THEN [engine |-> [eng EXCEPT !.first_clear_seen_ = TRUE], book |-> b, ret |-> FALSE]
    ELSE [engine |-> eng, book |-> clear(b, visit), ret |-> TRUE]

\* ActionEngine::handle_clear; `visit` is the order in which clear() walks order_map_
handle_clear(eng, b, event, visit) ==
    IF ~eng.first_clear_seen_
    THEN [engine |-> [eng EXCEPT !.first_clear_seen_ = TRUE], book |-> b, ret |-> FALSE]
    ELSE [engine |-> [eng EXCEPT !.trade_state_ = "IDLE", !.pending_trade_ = Nullopt],
          book |-> clear(b, visit),
          ret |-> TRUE]

\* process_event answering false to N
process_event_noop_silent(eng, b, event, visit) ==
    LET e1 == [eng EXCEPT !.actions_processed_ = @ + 1]
    IN  CASE event.action = "A" -> handle_add(e1, b, event)
          [] event.action = "M" -> handle_modify(e1, b, event)
          [] event.action = "C" -> handle_cancel(e1, b, event)
          [] event.action = "T" -> handle_trade(e1, b, event)
          [] event.action = "F" -> handle_fill(e1, b, event)
          [] event.action = "R" -> handle_clear(e1, b, event, visit)
          [] event.action = "N" -> [engine |-> e1, book |-> b, ret |-> FALSE]
          [] OTHER -> [engine |-> [e1 EXCEPT !.errors_encountered_ = @ + 1],
                       book |-> b, ret |-> FALSE]

\* ActionEngine::process_event
process_event(eng, b, event, visit) ==
    LET e1 == [eng EXCEPT !.actions_processed_ = @ + 1]
    IN  CASE event.action = "A" -> handle_add(e1, b, event)
          [] event.action = "M" -> handle_modify(e1, b, event)
          [] event.action = "C" -> handle_cancel(e1, b, event)
          [] event.action = "T" -> handle_trade(e1, b, event)
          [] event.action = "F" -> handle_fill(e1, b, event)
          [] event.action = "R" -> handle_clear(e1, b, event, visit)
          [] event.action = "N" -> [engine |-> e1, book |-> b, ret |-> TRUE]
          [] OTHER -> [engine |-> [e1 EXCEPT !.errors_encountered_ = @ + 1],
                       book |-> b, ret |-> FALSE]

(***************************************************************************)
(* snapshot.hpp, csv_parser.hpp : text is a sequence of characters         *)
(***************************************************************************)
\* int64_t a / b and a % b for b > 0 : the quotient is cut towards zero and
\* the remainder takes the sign of a
CDiv(a, b) == IF a >= 0 THEN a \div b ELSE -((-a) \div b)
CRem(a, b) == a - b * CDiv(a, b)

DigitChars == <<"0", "1", "2", "3", "4", "5", "6", "7", "8", "9">>
IsDigit(c) == \E d \in 1..10 : DigitChars[d] = c
\* *current_ - '0'
DigitValue(c) == (CHOOSE d \in 1..10 : DigitChars[d] = c) - 1

\* the decimal digits of n >= 0
RECURSIVE Digits(_)
Digits(n) ==
    IF n < 10 THEN <<DigitChars[n + 1]>>
    ELSE Digits(n \div 10) \o <<DigitChars[(n % 10) + 1]>>

\* std::to_string of an integer
to_string(n) == IF n < 0 THEN <<"-">> \o Digits(-n) ELSE Digits(n)

\* the conversion %02lld of snprintf : zeros fill up to two characters, the
\* sign of a negative value counting as one of them
printf_02lld(v) ==
    IF v < 0 THEN <<"-">> \o Digits(-v)
    ELSE IF v < 10 THEN <<"0">> \o Digits(v)
    ELSE Digits(v)

\* MBPFormatter::price_to_string
price_to_string(price_raw) ==
    LET whole == CDiv(price_raw, 100)
        frac == CRem(price_raw, 100)
    IN  IF frac = 0 THEN to_string(whole)
        ELSE to_string(whole) \o <<".">> \o printf_02lld(frac)

\* one slot of a row as MBPFormatter::format_snapshot writes it
SlotText(px, sz) ==
    <<",">> \o (IF px # 0 THEN price_to_string(px) ELSE <<>>)
    \o <<",">> \o (IF sz # 0 THEN to_string(sz) ELSE <<>>)

\* the ten slots of a side, from slot i on
RECURSIVE SlotsText(_, _, _)
SlotsText(pxs, szs, i) ==
    IF i > Len(pxs) THEN <<>>
    ELSE SlotText(pxs[i], szs[i]) \o SlotsText(pxs, szs, i + 1)

\* MBPFormatter::format_snapshot
format_snapshot(snapshot) ==
    to_string(snapshot.timestamp_ns)
    \o SlotsText(snapshot.bid_px, snapshot.bid_sz, 1)
    \o SlotsText(snapshot.ask_px, snapshot.ask_sz, 1)
    \o <<"\n">>

\* the while loop of FastCSVParser::parse_price over the digits from
\* position current_ on
RECURSIVE parse_digits(_, _, _)
parse_digits(text, current_, result) ==
    IF current_ <= Len(text) /\ IsDigit(text[current_])
    THEN parse_digits(text, current_ + 1, result * 10 + DigitValue(text[current_]))
    ELSE [result |-> result, current_ |-> current_]

\* FastCSVParser::parse_price on a field whose text is `text`
parse_price(text) ==
    LET negative == text # <<>> /\ text[1] = "-"
        d == parse_digits(text, IF negative THEN 2 ELSE 1, 0)
        HasDigit(i) == i <= Len(text) /\ IsDigit(text[i])
        result ==
            IF d.current_ <= Len(text) /\ text[d.current_] = "."
            THEN LET i == d.current_ + 1
                     r1 == d.result * 100
                     r2 == IF HasDigit(i) THEN r1 + DigitValue(text[i]) * 10 ELSE r1
                     j == IF HasDigit(i) THEN i + 1 ELSE i
                 IN  IF HasDigit(j) THEN r2 + DigitValue(text[j]) ELSE r2
            ELSE d.result * 100
    IN  IF negative THEN -result ELSE result

\* MBPSnapshot()
MBPSnapshot ==
    [timestamp_ns |-> 0, bid_px |-> ZeroArray, bid_sz |-> ZeroArray,
     ask_px |-> ZeroArray, ask_sz |-> ZeroArray]

\* MBPSnapshot::differs_from comparing the timestamps as well
differs_from_with_timestamp(a, other) == a # other

\* MBPSnapshot::differs_from
differs_from(a, other) ==
    \/ a.bid_px # other.bid_px
    \/ a.bid_sz # other.bid_sz
    \/ a.ask_px # other.ask_px
    \/ a.ask_sz # other.ask_sz

\* SnapshotManager()
NewManager ==
    [current_snapshot_ |-> MBPSnapshot, previous_snapshot_ |-> MBPSnapshot,
     has_previous_ |-> FALSE, snapshots_generated_ |-> 0, snapshots_skipped_ |-> 0]

\* SnapshotManager::should_generate_snapshot : the manager and the book (its
\* cache may be refreshed) afterwards, and the value returned
should_generate_snapshot(mgr, b, timestamp) ==
    LET g == get_top10_snapshot(b)
        current == [timestamp_ns |-> timestamp,
                    bid_px |-> g.snapshot.bid_px, bid_sz |-> g.snapshot.bid_sz,
                    ask_px |-> g.snapshot.ask_px, ask_sz |-> g.snapshot.ask_sz]
    IN  IF mgr.has_previous_ /\ ~differs_from(current, mgr.previous_snapshot_)
        THEN [manager |-> [mgr EXCEPT !.current_snapshot_ = current,
                                      !.snapshots_skipped_ = @ + 1],
              book |-> g.book, ret |-> FALSE]
        ELSE [manager |-> [mgr EXCEPT !.current_snapshot_ = current,
                                      !.previous_snapshot_ = current,
                                      !.has_previous_ = TRUE,
                                      !.snapshots_generated_ = @ + 1],
              book |-> g.book, ret |-> TRUE]

\* SnapshotProcessor::process_event formatting a line whatever the manager says
SnapshotProcessor_process_event_always(mgr, b, timestamp) ==
    LET g == should_generate_snapshot(mgr, b, timestamp)
    IN  [manager |-> g.manager, book |-> g.book,
         line |-> format_snapshot(g.manager.current_snapshot_)]

\* SnapshotProcessor::process_event : the line returned is empty when the
\* manager suppresses the snapshot
SnapshotProcessor_process_event(mgr, b, timestamp) ==
    LET g == should_generate_snapshot(mgr, b, timestamp)
    IN  [manager |-> g.manager, book |-> g.book,
         line |-> IF g.ret THEN format_snapshot(g.manager.current_snapshot_) ELSE <<>>]

\* the body of the while loop of MBPReconstructor::reconstruct for one event;
\* r is what action_engine_->process_event returned and left behind, p what
\* snapshot_processor_->process_event did, each bound once as the locals are
reconstruct(eng, b, mgr, event, visit) ==
    CHOOSE turn \in
        UNION {IF r.ret
               THEN {[engine |-> r.engine, book |-> p.book, manager |-> p.manager,
                      should_snapshot |-> TRUE, snapshot_line |-> p.line] :
                        p \in {SnapshotProcessor_process_event(mgr, r.book,
                                                               event.timestamp_ns)}}
               ELSE {[engine |-> r.engine, book |-> r.book, manager |-> mgr,
                      should_snapshot |-> FALSE, snapshot_line |-> <<>>]} :
                  r \in {process_event(eng, b, event, visit)}} : TRUE

(***************************************************************************)
(* State                                                                   *)
(***************************************************************************)
VARIABLES
    \* OrderBook
    bid_levels_, ask_levels_, order_map_,
    cached_bid_prices_, cached_bid_sizes_, cached_ask_prices_, cached_ask_sizes_,
    cache_valid_,
    \* OrderPool: pool_ also holds the heap cells
    pool_, free_list_, heap_,
    \* ActionEngine
    trade_state_, pending_trade_, last_trade_id_,
    actions_processed_, trades_aggregated_, errors_encountered_, first_clear_seen_,
    \* MBPReconstructor::reconstruct: the value process_event returned last
    should_snapshot,
    \* the value the last direct call of a book primitive returned
    call_ok,
    \* SnapshotManager
    current_snapshot_, previous_snapshot_, has_previous_,
    snapshots_generated_, snapshots_skipped_,
    \* std::cout : the snapshot line written last, empty before the first
    cout

bookVars == <<bid_levels_, ask_levels_, order_map_,
              cached_bid_prices_, cached_bid_sizes_, cached_ask_prices_, cached_ask_sizes_,
              cache_valid_, pool_, free_list_, heap_>>
engineVars == <<trade_state_, pending_trade_, last_trade_id_,
                actions_processed_, trades_aggregated_, errors_encountered_,
                first_clear_seen_>>
managerVars == <<current_snapshot_, previous_snapshot_, has_previous_,
                 snapshots_generated_, snapshots_skipped_>>
vars == <<bookVars, engineVars, should_snapshot, call_ok, managerVars, cout>>

\* the book / the engine of the current state, as values
Book ==
    [bid_levels_ |-> bid_levels_, ask_levels_ |-> ask_levels_, order_map_ |-> order_map_,
     pool_ |-> pool_, free_list_ |-> free_list_, heap_ |-> heap_,
     cached_bid_prices_ |-> cached_bid_prices_, cached_bid_sizes_ |-> cached_bid_sizes_,
     cached_ask_prices_ |-> cached_ask_prices_, cached_ask_sizes_ |-> cached_ask_sizes_,
     cache_valid_ |-> cache_valid_]
Engine ==
    [trade_state_ |-> trade_state_, pending_trade_ |-> pending_trade_,
     last_trade_id_ |-> last_trade_id_, actions_processed_ |-> actions_processed_,
     trades_aggregated_ |-> trades_aggregated_, errors_encountered_ |-> errors_encountered_,
     first_clear_seen_ |-> first_clear_seen_]

BookBecomes(b) ==
    /\ bid_levels_' = b.bid_levels_
    /\ ask_levels_' = b.ask_levels_
    /\ order_map_' = b.order_map_
    /\ pool_' = b.pool_
    /\ free_list_' = b.free_list_
    /\ heap_' = b.heap_
    /\ cached_bid_prices_' = b.cached_bid_prices_
    /\ cached_bid_sizes_' = b.cached_bid_sizes_
    /\ cached_ask_prices_' = b.cached_ask_prices_
    /\ cached_ask_sizes_' = b.cached_ask_sizes_
    /\ cache_valid_' = b.cache_valid_
EngineBecomes(e) ==
    /\ trade_state_' = e.trade_state_
    /\ pending_trade_' = e.pending_trade_
    /\ last_trade_id_' = e.last_trade_id_
    /\ actions_processed_' = e.actions_processed_
    /\ trades_aggregated_' = e.trades_aggregated_
    /\ errors_encountered_' = e.errors_encountered_
    /\ first_clear_seen_' = e.first_clear_seen_

BookIs(b) ==
    /\ bid_levels_ = b.bid_levels_
    /\ ask_levels_ = b.ask_levels_
    /\ order_map_ = b.order_map_
    /\ pool_ = b.pool_
    /\ free_list_ = b.free_list_
    /\ heap_ = b.heap_
    /\ cached_bid_prices_ = b.cached_bid_prices_
    /\ cached_bid_sizes_ = b.cached_bid_sizes_
    /\ cached_ask_prices_ = b.cached_ask_prices_
    /\ cached_ask_sizes_ = b.cached_ask_sizes_
    /\ cache_valid_ = b.cache_valid_
Manager ==
    [current_snapshot_ |-> current_snapshot_, previous_snapshot_ |-> previous_snapshot_,
     has_previous_ |-> has_previous_, snapshots_generated_ |-> snapshots_generated_,
     snapshots_skipped_ |-> snapshots_skipped_]
ManagerBecomes(m) ==
    /\ current_snapshot_' = m.current_snapshot_
    /\ previous_snapshot_' = m.previous_snapshot_
    /\ has_previous_' = m.has_previous_
    /\ snapshots_generated_' = m.snapshots_generated_
    /\ snapshots_skipped_' = m.snapshots_skipped_
EngineIs(e) ==
    /\ trade_state_ = e.trade_state_
    /\ pending_trade_ = e.pending_trade_
    /\ last_trade_id_ = e.last_trade_id_
    /\ actions_processed_ = e.actions_processed_
    /\ trades_aggregated_ = e.trades_aggregated_
    /\ errors_encountered_ = e.errors_encountered_
    /\ first_clear_seen_ = e.first_clear_seen_

\* OrderBook book; ActionEngine engine(book);
Init ==
    /\ BookIs(NewBook)
    /\ EngineIs(NewEngine)
    /\ should_snapshot = FALSE
    /\ call_ok = FALSE
    /\ current_snapshot_ = NewManager.current_snapshot_
    /\ previous_snapshot_ = NewManager.previous_snapshot_
    /\ has_previous_ = NewManager.has_previous_
    /\ snapshots_generated_ = NewManager.snapshots_generated_
    /\ snapshots_skipped_ = NewManager.snapshots_skipped_
    /\ cout = <<>>

(***************************************************************************)
(* The engine fed with events: one action per action code                  *)
(***************************************************************************)
\* The fields an action code is fed with.  Fields the handler of a code
\* never looks at take one value, except for C, whose id, price and size
\* vary although a trade completion ignores them.
EventSides(act) ==
    CASE act = "A" -> Sides
      [] act = "M" -> {"B", "N", "X"}
      [] act = "T" -> {"B", "A", "N"}
      [] act \in {"C", "F"} -> {"B"}
      [] OTHER -> {"N"}
EventPrices(act) == IF act \in {"A", "M", "T", "C"} THEN Prices ELSE {1}
EventSizes(act) == IF act \in {"A", "M", "T", "C"} THEN Sizes ELSE {1}
EventOrderIds(act) == IF act \in {"A", "M", "T", "C", "F"} THEN EventIds ELSE {1}
EventTimestamps(act) == IF act = "T" THEN Timestamps ELSE {1}
\* an add or modify the engine or the book turns down for its side alone
\* comes with one price and one size
RejectedForSide(act, sd) == (act \in {"A", "M"} /\ sd = "N") \/ (act = "A" /\ sd = "X")

EventsOf(act) ==
    {e \in {Event(ts, act, sd, px, sz, oid) :
               ts \in EventTimestamps(act), sd \in EventSides(act), px \in EventPrices(act),
               sz \in EventSizes(act), oid \in EventOrderIds(act)} :
        RejectedForSide(e.action, e.side) => (e.price_raw = 1 /\ e.size = 1)}
Events == UNION {EventsOf(act) : act \in ActionCodes}

\* bool should_snapshot = action_engine_->process_event(event)
ProcessEvent(event, visit) ==
    /\ actions_processed_ < MaxEvents
    /\ \E r \in {process_event(Engine, Book, event, visit)} :
           /\ EngineBecomes(r.engine)
           /\ BookBecomes(r.book)
           /\ should_snapshot' = r.ret
    /\ UNCHANGED <<call_ok, managerVars, cout>>

EvAdd == \E e \in EventsOf("A") : ProcessEvent(e, <<>>)
EvModify == \E e \in EventsOf("M") : ProcessEvent(e, <<>>)
EvCancel == \E e \in EventsOf("C") : ProcessEvent(e, <<>>)
EvTrade == \E e \in EventsOf("T") : ProcessEvent(e, <<>>)
EvFill == \E e \in EventsOf("F") : ProcessEvent(e, <<>>)
EvClear == \E e \in EventsOf("R"), visit \in IterationOrders(Book) : ProcessEvent(e, visit)
EvNoop == \E e \in EventsOf("N") : ProcessEvent(e, <<>>)
EvUnknown == \E e \in EventsOf("X") : ProcessEvent(e, <<>>)

Next ==
    \/ EvAdd
    \/ EvModify
    \/ EvCancel
    \/ EvTrade
    \/ EvFill
    \/ EvClear
    \/ EvNoop
    \/ EvUnknown

Spec == Init /\ [][Next]_vars

(***************************************************************************)
(* The book driven directly through its public operations                  *)
(***************************************************************************)
BookCall(r) ==
    /\ BookBecomes(r.book)
    /\ call_ok' = r.ok
    /\ UNCHANGED <<engineVars, should_snapshot, managerVars, cout>>

AddOrderIn(ids) ==
    \E id \in ids, px \in Prices, sz \in Sizes, sd \in {"B", "A", "N"}, ts \in {1} :
        \E r \in {add_order(Book, id, px, sz, sd, ts)} : BookCall(r)
ModifyOrderIn(ids) ==
    \E id \in ids, px \in Prices, sz \in Sizes :
        \E r \in {modify_order(Book, id, px, sz)} : BookCall(r)
CancelOrderIn(ids) ==
    \E id \in ids : \E r \in {cancel_order(Book, id)} : BookCall(r)
ExecuteTrade ==
    \E px \in Prices, sz \in TradeSizes, sd \in {"B", "A", "N"} :
        \E r \in {execute_trade(Book, px, sz, sd)} : BookCall(r)
Clear ==
    \E visit \in IterationOrders(Book) : \E b \in {clear(Book, visit)} :
        /\ BookBecomes(b)
        /\ UNCHANGED <<engineVars, should_snapshot, call_ok, managerVars, cout>>
GetTop10Snapshot ==
    /\ \E r \in {get_top10_snapshot(Book)} : BookBecomes(r.book)
    /\ UNCHANGED <<engineVars, should_snapshot, call_ok, managerVars, cout>>

AddOrder == AddOrderIn(OrderIds)
ModifyOrder == ModifyOrderIn(OrderIds)
CancelOrder == CancelOrderIn(OrderIds)

NextBook ==
    \/ AddOrder
    \/ ModifyOrder
    \/ CancelOrder
    \/ ExecuteTrade
    \/ Clear

SpecBook == Init /\ [][NextBook]_vars


(***************************************************************************)
(* The book with reads of the top-10 cache interleaved (fewer order ids)   *)
(***************************************************************************)
AddOrderC == AddOrderIn(EventIds)
ModifyOrderC == ModifyOrderIn(EventIds)
CancelOrderC == CancelOrderIn(EventIds)

NextCache ==
    \/ AddOrderC
    \/ ModifyOrderC
    \/ CancelOrderC
    \/ ExecuteTrade
    \/ Clear
    \/ GetTop10Snapshot

SpecCache == Init /\ [][NextCache]_vars


(***************************************************************************)
(* The driver loop: engine, then the emitter when the event is worthy      *)
(***************************************************************************)
\* The events the driver is fed with: those of the engine without the
\* fields that only multiply equal outcomes (a T or F at timestamp 2, sizes
\* of 2 for A, prices and sizes of 2 for C, M with a side other than B)
DriverEvents ==
    {e \in Events :
        /\ e.timestamp_ns = 1
        /\ e.side # "X"
        /\ e.action = "A" => e.size = 1
        /\ e.action = "M" => e.side = "B"
        /\ e.action = "C" => (e.price_raw = 1 /\ e.size = 1)
        /\ e.action = "T" => e.size \in {1, 2}}
DriverEventsOf(act) == {e \in DriverEvents : e.action = act}

\* one turn of the loop of MBPReconstructor::reconstruct
Reconstruct(event, visit) ==
    /\ actions_processed_ < MaxEvents
    /\ \E r \in {reconstruct(Engine, Book, Manager, event, visit)} :
           /\ EngineBecomes(r.engine)
           /\ BookBecomes(r.book)
           /\ ManagerBecomes(r.manager)
           /\ should_snapshot' = r.should_snapshot
           /\ cout' = IF r.snapshot_line # <<>> THEN r.snapshot_line ELSE cout
    /\ UNCHANGED call_ok

\* while (parser.parse_next_event(event)) { ... } : one turn, by action code
NextDriver ==
    \/ \E e \in DriverEventsOf("A") : Reconstruct(e, <<>>)
    \/ \E e \in DriverEventsOf("M") : Reconstruct(e, <<>>)
    \/ \E e \in DriverEventsOf("C") : Reconstruct(e, <<>>)
    \/ \E e \in DriverEventsOf("T") : Reconstruct(e, <<>>)
    \/ \E e \in DriverEventsOf("F") : Reconstruct(e, <<>>)
    \/ \E e \in DriverEventsOf("R"), visit \in IterationOrders(Book) : Reconstruct(e, visit)
    \/ \E e \in DriverEventsOf("N") : Reconstruct(e, <<>>)
    \/ \E e \in DriverEventsOf("X") : Reconstruct(e, <<>>)

SpecDriver == Init /\ [][NextDriver]_vars


(***************************************************************************)
(* The emitter asked about books holding any price and size, zero and      *)
(* negative prices included                                                *)
(***************************************************************************)
MaxInvocations == 2
FormatPrices == {-150, -100, -5, 0, 5, 1099}
FormatSizes == {0, 12}

AddOrderF ==
    \E id \in EventIds, px \in FormatPrices, sz \in FormatSizes, sd \in {"B", "A"}, ts \in {1} :
        \E r \in {add_order(Book, id, px, sz, sd, ts)} : BookCall(r)
\* snapshot_processor_->process_event(*order_book_, timestamp), and the line
\* written when it is not empty
ProcessSnapshot ==
    /\ snapshots_generated_ + snapshots_skipped_ < MaxInvocations
    /\ \E ts \in Timestamps :
          \E p \in {SnapshotProcessor_process_event(Manager, Book, ts)} :
              /\ BookBecomes(p.book)
              /\ ManagerBecomes(p.manager)
              /\ cout' = IF p.line # <<>> THEN p.line ELSE cout
    /\ UNCHANGED <<engineVars, should_snapshot, call_ok>>

NextFormat ==
    \/ AddOrderF
    \/ ProcessSnapshot

SpecFormat == Init /\ [][NextFormat]_vars


(***************************************************************************)
(* Properties of the book                                                  *)
(***************************************************************************)
BookSides == {"B", "A"}
LevelsOf(sd) == IF sd = "B" THEN bid_levels_ ELSE ask_levels_
\* every level of the book as <<side, key>>
LevelKeys == {<<sd, px>> : sd \in BookSides, px \in DOMAIN bid_levels_ \cup DOMAIN ask_levels_}
                 \cap {k \in BookSides \X Int : k[2] \in DOMAIN LevelsOf(k[1])}
\* the chain of the level <<sd, px>>, walked from first_order through next
ChainOf(k) == ChainFrom(pool_, LevelsOf(k[1])[k[2]].first_order, Cardinality(AllPtrs) + 1)

RECURSIVE SumSizes(_)
SumSizes(chain) ==
    IF chain = <<>> THEN 0 ELSE pool_[Head(chain)].size + SumSizes(Tail(chain))

\* C1: every level's total_size is the sum of the sizes of the orders in its
\* chain and its order_count is the number of orders in its chain.
C1_LevelTotals ==
    \A k \in LevelKeys :
        LET lvl == LevelsOf(k[1])[k[2]]
        IN  /\ lvl.total_size = SumSizes(ChainOf(k))
            /\ lvl.order_count = Len(ChainOf(k))

\* a level holding two orders of different sizes, one of them partly filled or
\* resized next to a heap-allocated order
C1_Witness ==
    /\ C1_LevelTotals
    /\ heap_ # {}
    /\ \E k \in LevelKeys :
          /\ LevelsOf(k[1])[k[2]].order_count = 2
          /\ LevelsOf(k[1])[k[2]].total_size = 3

\* C2: an order id is in the order map iff the order is linked in the chain
\* of exactly one level, whose key is the order's price_raw; no chain links a
\* cell twice or a cell the map does not know.
C2_MapMatchesChains ==
    /\ \A id \in DOMAIN order_map_ :
          LET p == order_map_[id]
              homes == {k \in LevelKeys : p \in SeqToSet(ChainOf(k))}
          IN  /\ pool_[p].order_id = id
              /\ Cardinality(homes) = 1
              /\ \A k \in homes : k[2] = pool_[p].price_raw
                                  /\ LevelsOf(k[1])[k[2]].price_raw = pool_[p].price_raw
    /\ \A k \in LevelKeys :
          LET chain == ChainOf(k)
          IN  /\ \A i, j \in DOMAIN chain : i # j => chain[i] # chain[j]
              /\ \A i \in DOMAIN chain :
                    /\ pool_[chain[i]].order_id \in DOMAIN order_map_
                    /\ order_map_[pool_[chain[i]].order_id] = chain[i]

\* three resting orders, two of them chained in one level, after a successful call
C2_Witness ==
    /\ Cardinality(DOMAIN order_map_) = 3
    /\ \E k \in LevelKeys : Len(ChainOf(k)) = 2
    /\ call_ok

\* C3: neither side map holds a level with order_count = 0.
C3_NoEmptyLevel ==
    \A k \in LevelKeys :
        /\ LevelsOf(k[1])[k[2]].order_count # 0
        /\ LevelsOf(k[1])[k[2]].first_order # NULL

\* the order on the heap is the only one left: the two slab orders were
\* removed one by one and their levels are gone
C3_Witness ==
    /\ heap_ # {}
    /\ Len(free_list_) = POOL_SIZE
    /\ Cardinality(DOMAIN order_map_) = 1
    /\ Cardinality(LevelKeys) = 1
    /\ call_ok

\* the keys of `levels` that come before k in the order of side sd
Ahead(levels, sd, k) ==
    {j \in DOMAIN levels : IF sd = "B" THEN j > k ELSE j < k}
\* the i-th best level of a side: <<key, total_size>>, or <<0, 0>>
NthLevel(levels, sd, i) ==
    LET at == {k \in DOMAIN levels : Cardinality(Ahead(levels, sd, k)) = i - 1}
    IN  IF at = {} THEN <<0, 0>>
        ELSE LET k == CHOOSE x \in at : TRUE IN <<k, levels[k].total_size>>
TopPrices(levels, sd) == [i \in 1..TOP_N |-> NthLevel(levels, sd, i)[1]]
TopSizes(levels, sd) == [i \in 1..TOP_N |-> NthLevel(levels, sd, i)[2]]

\* the filled prefix of a price array is strictly monotone, the rest is zero
SortedThenZero(px, n, sd) ==
    /\ \A i \in 1..TOP_N : i > n => px[i] = 0
    /\ \A i, j \in 1..TOP_N : (i < j /\ j <= n) =>
          IF sd = "B" THEN px[i] > px[j] ELSE px[i] < px[j]

Outcome(e, visit) == process_event(Engine, Book, e, visit)

\* C5: a T event, in whatever trade state it arrives, sets TRADE_RECEIVED,
\* replaces the pending trade by the T's timestamp, id, price, size and
\* side, leaves the book unchanged and is not snapshot-worthy.
C5_TradeBuffered ==
    \A e \in EventsOf("T") :
        LET r == Outcome(e, <<>>)
        IN  /\ r.engine.trade_state_ = "TRADE_RECEIVED"
            /\ Len(r.engine.pending_trade_) = 1
            /\ r.engine.pending_trade_[1].timestamp_ns = e.timestamp_ns
            /\ r.engine.pending_trade_[1].trade_id = e.order_id
            /\ r.engine.pending_trade_[1].price_raw = e.price_raw
            /\ r.engine.pending_trade_[1].size = e.size
            /\ r.engine.pending_trade_[1].side = e.side
            /\ r.book = Book
            /\ r.ret = FALSE

\* a T has replaced an earlier trade while orders rest in the book: the
\* buffered id differs from the one an accepted F had confirmed
C5_Witness ==
    /\ trade_state_ = "TRADE_RECEIVED"
    /\ ~should_snapshot
    /\ actions_processed_ = 4
    /\ errors_encountered_ = 0
    /\ ~first_clear_seen_
    /\ Cardinality(DOMAIN order_map_) = 1
    /\ pending_trade_[1].timestamp_ns = 2

\* C6: a C arriving in FILL_RECEIVED replays the buffered price, size and
\* aggressor side through execute_trade exactly once (nothing of the C event
\* is used, no cancel_order happens) and leaves the engine in IDLE with no
\* pending trade, whether or not execute_trade succeeded.
C6_CompletionReplaysBuffer ==
    trade_state_ = "FILL_RECEIVED" =>
        /\ HasValue(pending_trade_)
        /\ \A e \in EventsOf("C") :
              LET r == Outcome(e, <<>>)
                  t == pending_trade_[1]
                  x == execute_trade(Book, t.price_raw, t.size, t.side)
              IN  /\ r.book = x.book
                  /\ r.engine.trade_state_ = "IDLE"
                  /\ r.engine.pending_trade_ = Nullopt
                  /\ r.engine.trades_aggregated_ =
                        trades_aggregated_ + (IF x.ok THEN 1 ELSE 0)

\* a completed trade that left part of the resting order in the book
C6_Witness ==
    /\ trades_aggregated_ = 1
    /\ trade_state_ = "IDLE"
    /\ pending_trade_ = Nullopt
    /\ \E id \in DOMAIN order_map_ : pool_[order_map_[id]].size = 1
    /\ should_snapshot

\* C7 (as claimed): an F is accepted only in TRADE_RECEIVED with the pending
\* trade's id; in every other case the engine ends in IDLE with the pending
\* trade discarded and one more error; the book is unchanged and the F is
\* not snapshot-worthy.
C7_FillClaim ==
    \A e \in EventsOf("F") :
        LET r == Outcome(e, <<>>)
            accepted == /\ trade_state_ = "TRADE_RECEIVED"
                        /\ HasValue(pending_trade_)
                        /\ e.order_id = pending_trade_[1].trade_id
        IN  /\ r.book = Book
            /\ r.ret = FALSE
            /\ IF accepted
               THEN r.engine.trade_state_ = "FILL_RECEIVED"
               ELSE /\ r.engine.trade_state_ = "IDLE"
                    /\ r.engine.pending_trade_ = Nullopt
                    /\ r.engine.errors_encountered_ = errors_encountered_ + 1

AddFails(e) == e.side \notin {"B", "A"} \/ e.order_id \in DOMAIN order_map_
ModifyFails(e) == e.order_id \notin DOMAIN order_map_

PassiveLevelAt(px, aggressor) ==
    IF aggressor = "B" THEN px \in DOMAIN ask_levels_ ELSE px \in DOMAIN bid_levels_

\* C9 (as claimed): every C processed in FILL_RECEIVED is snapshot-worthy.
C9_CompletionAlwaysWorthy ==
    trade_state_ = "FILL_RECEIVED" =>
        \A e \in EventsOf("C") : Outcome(e, <<>>).ret = TRUE

\* C9 (amended): a C processed in FILL_RECEIVED is snapshot-worthy exactly
\* when the passive side holds a level at the buffered price, that is when
\* execute_trade succeeds; otherwise it returns false and counts an error.
C9_CompletionWorthyIffExecuted ==
    trade_state_ = "FILL_RECEIVED" =>
        \A e \in EventsOf("C") :
            LET r == Outcome(e, <<>>)
                hit == PassiveLevelAt(pending_trade_[1].price_raw, pending_trade_[1].side)
            IN  /\ r.ret = hit
                /\ r.engine.errors_encountered_ =
                      errors_encountered_ + (IF hit THEN 0 ELSE 1)

\* a completion that consumed the whole book was reported snapshot-worthy
C9_Witness ==
    /\ should_snapshot
    /\ trades_aggregated_ = 1
    /\ trade_state_ = "IDLE"
    /\ DOMAIN order_map_ = {}
    /\ actions_processed_ = 4

\* C10 (as claimed): no A and no M event is snapshot-worthy.
C10_AddModifyNeverWorthy ==
    \A act \in {"A", "M"} : \A e \in EventsOf(act) : Outcome(e, <<>>).ret = FALSE

\* C10 (amended): an A or M event is snapshot-worthy exactly when the add or
\* modify succeeded: the side is not N and the book accepts the call.
C10_AddModifyWorthyIffDone ==
    /\ \A e \in EventsOf("A") :
          Outcome(e, <<>>).ret = (e.side # "N" /\ ~AddFails(e))
    /\ \A e \in EventsOf("M") :
          Outcome(e, <<>>).ret = (e.side # "N" /\ ~ModifyFails(e))

\* the first event was an add that succeeded and was reported
C10_Witness ==
    /\ should_snapshot
    /\ actions_processed_ = 1
    /\ DOMAIN order_map_ # {}

(***************************************************************************)
(* The snapshot-worthy bit, clears and error accounting                    *)
(***************************************************************************)
\* C11: process_event returns true exactly for an A that adds (side B or A,
\* id not resting), an M that modifies (side not N, id resting), a plain C
\* of a resting id, a completing C that finds a passive level at the
\* buffered price, an R after the first, and every N; false for every T,
\* every F, the first R, every failed operation and every unknown action.
C11_SnapshotWorthy ==
    \A act \in ActionCodes :
        \A e \in EventsOf(act),
           visit \in (IF act = "R" THEN IterationOrders(Book) ELSE {<<>>}) :
            Outcome(e, visit).ret =
                CASE act = "A" -> e.side \in {"B", "A"} /\ e.order_id \notin DOMAIN order_map_
                  [] act = "M" -> e.side # "N" /\ e.order_id \in DOMAIN order_map_
                  [] act = "C" -> IF trade_state_ = "FILL_RECEIVED"
                                  THEN PassiveLevelAt(pending_trade_[1].price_raw,
                                                      pending_trade_[1].side)
                                  ELSE e.order_id \in DOMAIN order_map_
                  [] act = "R" -> first_clear_seen_
                  [] act = "N" -> TRUE
                  [] OTHER -> FALSE

\* two adds took both pool slots and a plain cancel gave the first one back:
\* the third event was a successful cancel and was reported
C11_Witness ==
    /\ should_snapshot
    /\ actions_processed_ = 3
    /\ errors_encountered_ = 0
    /\ ~first_clear_seen_
    /\ trade_state_ = "IDLE"
    /\ Cardinality(DOMAIN order_map_) = 1
    /\ free_list_ = <<POOL_SIZE>>

\* C12: the first R changes neither the book nor the trade state nor the
\* pending trade and returns false; every later R leaves no order and no
\* level, sets IDLE, discards the pending trade and returns true.
C12_ClearPreambleThenReset ==
    \A e \in EventsOf("R"), visit \in IterationOrders(Book) :
        LET r == Outcome(e, visit)
        IN  IF ~first_clear_seen_
            THEN /\ r.book = Book
                 /\ r.engine.trade_state_ = trade_state_
                 /\ r.engine.pending_trade_ = pending_trade_
                 /\ r.engine.first_clear_seen_
                 /\ r.ret = FALSE
            ELSE /\ DOMAIN r.book.order_map_ = {}
                 /\ DOMAIN r.book.bid_levels_ = {}
                 /\ DOMAIN r.book.ask_levels_ = {}
                 /\ r.engine.trade_state_ = "IDLE"
                 /\ r.engine.pending_trade_ = Nullopt
                 /\ r.ret = TRUE

\* the second R emptied a book of two orders, visiting the later one last
C12_Witness ==
    /\ first_clear_seen_
    /\ should_snapshot
    /\ actions_processed_ = 4
    /\ DOMAIN order_map_ = {}
    /\ DOMAIN bid_levels_ = {} /\ DOMAIN ask_levels_ = {}
    /\ Len(free_list_) = POOL_SIZE /\ free_list_ # [i \in 1..POOL_SIZE |-> i]

\* C13 (as claimed): an A or M event with side N increments the error count
\* by one.
C13_SideNCounted ==
    \A act \in {"A", "M"} :
        \A e \in EventsOf(act) :
            e.side = "N" =>
                Outcome(e, <<>>).engine.errors_encountered_ = errors_encountered_ + 1

\* the input-data errors of C14: an unknown action, an A naming a resting
\* id, an M or plain C naming an unknown id, an F outside TRADE_RECEIVED, an
\* F whose id is not the pending trade's
InputDataError(e) ==
    \/ e.action \notin {"A", "M", "C", "T", "F", "R", "N"}
    \/ e.action = "A" /\ e.order_id \in DOMAIN order_map_
    \/ e.action = "M" /\ e.order_id \notin DOMAIN order_map_
    \/ e.action = "C" /\ trade_state_ # "FILL_RECEIVED" /\ e.order_id \notin DOMAIN order_map_
    \/ e.action = "F" /\ trade_state_ # "TRADE_RECEIVED"
    \/ e.action = "F" /\ trade_state_ = "TRADE_RECEIVED"
                      /\ e.order_id # pending_trade_[1].trade_id

\* C14 (as claimed): each input-data error increments the error count by
\* exactly one, returns false and leaves the order book unchanged.
C14_InputErrorsCounted ==
    \A e \in Events :
        InputDataError(e) =>
            LET r == Outcome(e, <<>>)
            IN  /\ r.engine.errors_encountered_ = errors_encountered_ + 1
                /\ r.ret = FALSE
                /\ r.book = Book

\* C15 (as claimed): an A or M event whose side is neither B nor A leaves
\* the order book unchanged.
C15_OnlyBidAskForwarded ==
    \A act \in {"A", "M"} :
        \A e \in EventsOf(act) :
            e.side \notin {"B", "A"} => Outcome(e, <<>>).book = Book

(***************************************************************************)
(* Properties of the book primitives.  Each is stated of the primitive     *)
(* applied to the current book, for every argument of the alphabets.       *)
(***************************************************************************)
\* what a side of a book holds, pointers left out: for each price the
\* level's totals and its chain as the orders met from first_order on
SideView(b, sd) ==
    [px \in DOMAIN SideLevels(b, sd) |->
        LET lv == SideLevels(b, sd)[px]
            ch == ChainFrom(b.pool_, lv.first_order, Cardinality(AllPtrs) + 1)
        IN  [total_size |-> lv.total_size,
             order_count |-> lv.order_count,
             chain |-> [i \in DOMAIN ch |->
                           [order_id |-> b.pool_[ch[i]].order_id,
                            price_raw |-> b.pool_[ch[i]].price_raw,
                            size |-> b.pool_[ch[i]].size]]]]

\* the side execute_trade takes liquidity from
PassiveSide(aggressor_side) == IF aggressor_side = "B" THEN "A" ELSE "B"

\* C16 (as claimed): execute_trade leaves the ask side unchanged when the
\* aggressor is A and leaves the bid side unchanged for every other
\* aggressor value (B and N).
C16_PassiveIsAskUnlessA ==
    \A px \in Prices, sz \in TradeSizes, ag \in {"B", "A", "N"} :
        LET r == execute_trade(Book, px, sz, ag)
        IN  IF ag = "A"
            THEN SideView(r.book, "A") = SideView(Book, "A")
            ELSE SideView(r.book, "B") = SideView(Book, "B")

\* C16 (amended): execute_trade leaves the bid side unchanged when the
\* aggressor is B and leaves the ask side unchanged for every other
\* aggressor value (A and N); it fails exactly when the side it takes from
\* has no level at the price.
C16_PassiveIsBidUnlessB ==
    \A px \in Prices, sz \in TradeSizes, ag \in {"B", "A", "N"} :
        LET r == execute_trade(Book, px, sz, ag)
        IN  /\ IF ag = "B"
               THEN SideView(r.book, "B") = SideView(Book, "B")
               ELSE SideView(r.book, "A") = SideView(Book, "A")
            /\ r.ok = (px \in DOMAIN LevelsOf(IF ag = "B" THEN "A" ELSE "B"))

\* both sides rest at price 1 and a trade with aggressor N takes from the bids
C16_Witness ==
    /\ 1 \in DOMAIN bid_levels_ /\ 1 \in DOMAIN ask_levels_
    /\ LET r == execute_trade(Book, 1, 1, "N")
       IN  /\ r.ok
           /\ SideView(r.book, "B") # SideView(Book, "B")
           /\ SideView(r.book, "A") = SideView(Book, "A")

\* the summed size of the first i orders of a chain view
RECURSIVE PrefixSize(_, _)
PrefixSize(chain, i) == IF i = 0 THEN 0 ELSE chain[i].size + PrefixSize(chain, i - 1)

Min(a, b) == IF a < b THEN a ELSE b

\* C17: with a level at the trade price on the passive side, execute_trade
\* removes the head orders that fit into the quantity still open, reduces the
\* next order by what is left and stops; the orders behind keep their place
\* and size, the removed ids leave the order map, total_size drops by
\* min(size, total_size), the level goes when no order is left, every other
\* level is as before, and the call returns true whatever the depth.
C17_TradeWalksHeadFirst ==
    \A px \in Prices, sz \in TradeSizes, ag \in {"B", "A", "N"} :
        LET sd == PassiveSide(ag)
        IN  px \in DOMAIN LevelsOf(sd) =>
            LET r == execute_trade(Book, px, sz, ag)
                old == SideView(Book, sd)
                new == SideView(r.book, sd)
                ch == old[px].chain
                n == Len(ch)
                \* order i is removed: quantity remains when it is reached and it fits
                gone == {i \in 1..n : PrefixSize(ch, i - 1) < sz /\ PrefixSize(ch, i) <= sz}
                k == Cardinality(gone)
                open == sz - PrefixSize(ch, k)
                rest == [i \in 1..(n - k) |->
                            IF i = 1 THEN [ch[k + 1] EXCEPT !.size = @ - open]
                            ELSE ch[k + i]]
            IN  /\ r.ok
                /\ gone = 1..k
                /\ DOMAIN r.book.order_map_ =
                      DOMAIN order_map_ \ {ch[i].order_id : i \in gone}
                /\ IF k = n
                   THEN DOMAIN new = DOMAIN old \ {px}
                   ELSE /\ DOMAIN new = DOMAIN old
                        /\ new[px].chain = rest
                        /\ new[px].order_count = n - k
                        /\ new[px].total_size = old[px].total_size - Min(sz, old[px].total_size)
                /\ \A q \in DOMAIN old \ {px} : new[q] = old[q]
                /\ SideView(r.book, IF sd = "B" THEN "A" ELSE "B")
                      = SideView(Book, IF sd = "B" THEN "A" ELSE "B")

\* a level of two orders of size 2 and a trade of 3: the head goes, the
\* second order is left with size 1
C17_Witness ==
    \E sd \in BookSides : \E px \in DOMAIN LevelsOf(sd) :
        LET ch == SideView(Book, sd)[px].chain
            r == execute_trade(Book, px, 3, IF sd = "B" THEN "A" ELSE "B")
        IN  /\ Len(ch) = 2 /\ ch[1].size = 2 /\ ch[2].size = 2
            /\ r.ok
            /\ SideView(r.book, sd)[px].chain = <<[ch[2] EXCEPT !.size = 1]>>

\* C18: a failing primitive returns false and leaves the book as it was:
\* add_order with a resting id or a side other than B/A, modify_order and
\* cancel_order with an unknown id, execute_trade with no level at the price
\* on the side it takes from.
C18_FailureChangesNothing ==
    LET unchanged == [book |-> Book, ok |-> FALSE]
    IN  /\ \A id \in OrderIds, px \in Prices, sz \in Sizes, sd \in Sides, ts \in Timestamps :
              (id \in DOMAIN order_map_ \/ sd \notin {"B", "A"}) =>
                  add_order(Book, id, px, sz, sd, ts) = unchanged
        /\ \A id \in OrderIds \ DOMAIN order_map_ :
              /\ \A px \in Prices, sz \in Sizes : modify_order(Book, id, px, sz) = unchanged
              /\ cancel_order(Book, id) = unchanged
        /\ \A px \in Prices, sz \in TradeSizes, ag \in {"B", "A", "N"} :
              px \notin DOMAIN LevelsOf(PassiveSide(ag)) =>
                  execute_trade(Book, px, sz, ag) = unchanged

\* a call has just failed on a book that holds orders, one id is still
\* unknown and the asks have no level at price 2: each kind of failure is at hand
C18_Witness ==
    /\ ~call_ok
    /\ DOMAIN order_map_ # {}
    /\ OrderIds \ DOMAIN order_map_ # {}
    /\ 2 \notin DOMAIN ask_levels_
    /\ ~execute_trade(Book, 2, 1, "B").ok
    /\ \E id \in DOMAIN order_map_ : ~add_order(Book, id, 2, 1, "A", 1).ok
    /\ \E id \in OrderIds \ DOMAIN order_map_ :
          /\ ~add_order(Book, id, 1, 1, "N", 1).ok
          /\ ~modify_order(Book, id, 1, 1).ok
          /\ ~cancel_order(Book, id).ok

\* a level that does not exist yet, seen as holding nothing
NoLevel == [total_size |-> 0, order_count |-> 0, chain |-> <<>>]

\* C19: add_order with an id not resting and side B or A returns true, puts
\* the order at the tail of the chain of the level at its price on its side
\* (a new level if there was none), adds its size to total_size and one to
\* order_count, raises active_orders by one and changes no other level or
\* order.
C19_AddAppendsAtTail ==
    \A id \in OrderIds \ DOMAIN order_map_ :
        \A px \in Prices, sz \in Sizes, sd \in BookSides, ts \in Timestamps :
            LET r == add_order(Book, id, px, sz, sd, ts)
                old == SideView(Book, sd)
                new == SideView(r.book, sd)
                was == IF px \in DOMAIN old THEN old[px] ELSE NoLevel
                other == IF sd = "B" THEN "A" ELSE "B"
            IN  /\ r.ok
                /\ DOMAIN new = DOMAIN old \cup {px}
                /\ new[px].chain =
                      Append(was.chain, [order_id |-> id, price_raw |-> px, size |-> sz])
                /\ new[px].total_size = was.total_size + sz
                /\ new[px].order_count = was.order_count + 1
                /\ \A q \in DOMAIN old \ {px} : new[q] = old[q]
                /\ SideView(r.book, other) = SideView(Book, other)
                /\ DOMAIN r.book.order_map_ = DOMAIN order_map_ \cup {id}
                /\ get_active_orders(r.book) = get_active_orders(Book) + 1
                /\ r.book.pool_[r.book.order_map_[id]].timestamp_ns = ts

\* after a successful call a side holds two levels, one of them with a
\* single order: an add of a fresh id at that price queues behind it
C19_Witness ==
    /\ call_ok
    /\ \E sd \in BookSides :
          /\ Cardinality(DOMAIN LevelsOf(sd)) = 2
          /\ \E px \in DOMAIN LevelsOf(sd) :
                LET ch == SideView(Book, sd)[px].chain
                IN  /\ Len(ch) = 1
                    /\ \E id \in OrderIds \ DOMAIN order_map_ :
                          LET r == add_order(Book, id, px, 2, sd, 1)
                          IN  /\ r.ok
                              /\ Len(SideView(r.book, sd)[px].chain) = 2
                              /\ SideView(r.book, sd)[px].chain[1] = ch[1]

\* C20: modify_order on a resting order with new_price equal to its price
\* returns true and changes only that order's size and its level's
\* total_size (by new_size - old size): the order keeps its place in the
\* chain, order_count and every other order and level are as before.
C20_SamePriceModifyKeepsPlace ==
    \A id \in DOMAIN order_map_ :
        \A sz \in Sizes :
            LET px == pool_[order_map_[id]].price_raw
                old_size == pool_[order_map_[id]].size
                r == modify_order(Book, id, px, sz)
                Resized(lv) ==
                    [total_size |-> IF \E i \in DOMAIN lv.chain : lv.chain[i].order_id = id
                                    THEN lv.total_size - old_size + sz
                                    ELSE lv.total_size,
                     order_count |-> lv.order_count,
                     chain |-> [i \in DOMAIN lv.chain |->
                                   IF lv.chain[i].order_id = id
                                   THEN [lv.chain[i] EXCEPT !.size = sz]
                                   ELSE lv.chain[i]]]
            IN  /\ r.ok
                /\ r.book.order_map_ = order_map_
                /\ \A sd \in BookSides :
                      SideView(r.book, sd) =
                          [q \in DOMAIN SideView(Book, sd) |-> Resized(SideView(Book, sd)[q])]

\* after a successful call a level holds two orders, the head of size 1:
\* resizing the head to 2 leaves it the head and raises total_size by 1
C20_Witness ==
    /\ call_ok
    /\ \E sd \in BookSides : \E px \in DOMAIN LevelsOf(sd) :
          LET ch == SideView(Book, sd)[px].chain
          IN  /\ Len(ch) = 2
              /\ ch[1].size = 1
              /\ LET r == modify_order(Book, ch[1].order_id, px, 2)
                 IN  /\ r.ok
                     /\ SideView(r.book, sd)[px].chain = <<[ch[1] EXCEPT !.size = 2], ch[2]>>
                     /\ SideView(r.book, sd)[px].total_size = 2 + ch[2].size

\* ---- order-level views of a side, for stating what a primitive did ----

\* a chain without the order `order_id`, the others in their old order
RECURSIVE ChainWithout(_, _)
ChainWithout(chain, order_id) ==
    IF chain = <<>> THEN <<>>
    ELSE IF Head(chain).order_id = order_id THEN ChainWithout(Tail(chain), order_id)
    ELSE <<Head(chain)>> \o ChainWithout(Tail(chain), order_id)

\* the sizes of a chain of a view, added up
RECURSIVE ViewSum(_)
ViewSum(chain) ==
    IF chain = <<>> THEN 0 ELSE Head(chain).size + ViewSum(Tail(chain))

\* the view of a side once the order `order_id` has left it: its level loses
\* the order from its chain, count and total, and disappears when that was its
\* last order; every other level is as it was
ViewWithout(view, order_id) ==
    LET Holds(px) == \E i \in DOMAIN view[px].chain : view[px].chain[i].order_id = order_id
        Kept == {px \in DOMAIN view : ~(Holds(px) /\ Len(view[px].chain) = 1)}
    IN  [px \in Kept |->
            IF Holds(px)
            THEN LET rest == ChainWithout(view[px].chain, order_id)
                 IN  [total_size |-> ViewSum(rest),
                      order_count |-> Len(rest),
                      chain |-> rest]
            ELSE view[px]]

\* the view of a side once `ord` has joined the tail of the level at its
\* price, a level that is created when the side had none there
ViewAppend(view, ord) ==
    LET px == ord.price_raw
        old == IF px \in DOMAIN view THEN view[px].chain ELSE <<>>
        new == Append(old, ord)
    IN  [q \in DOMAIN view \cup {px} |->
            IF q = px
            THEN [total_size |-> ViewSum(new), order_count |-> Len(new), chain |-> new]
            ELSE view[q]]

\* the side an order rests on, read off the views
RestingSide(b, order_id) ==
    IF \E px \in DOMAIN SideView(b, "B") :
          \E i \in DOMAIN SideView(b, "B")[px].chain :
             SideView(b, "B")[px].chain[i].order_id = order_id
    THEN "B" ELSE "A"

\* C21: modify_order to a different price takes the order out of its level
\* (the level goes when it was the last), stores the new price and size, and
\* queues it at the tail of the level at the new price on the same side
\* (created when absent); the other side, the id map and the number of
\* active orders are as before
C21_PriceModifyRequeuesSameSide ==
    \A id \in DOMAIN order_map_ :
        \A px \in Prices \ {pool_[order_map_[id]].price_raw} :
            \A sz \in Sizes :
                LET sd == RestingSide(Book, id)
                    other == IF sd = "B" THEN "A" ELSE "B"
                    r == modify_order(Book, id, px, sz)
                IN  /\ r.ok
                    /\ SideView(r.book, sd) =
                          ViewAppend(ViewWithout(SideView(Book, sd), id),
                                     [order_id |-> id, price_raw |-> px, size |-> sz])
                    /\ SideView(r.book, other) = SideView(Book, other)
                    /\ r.book.order_map_ = order_map_
                    /\ get_active_orders(r.book) = get_active_orders(Book)

\* after a successful call an ask level holds two orders and the other price
\* one: moving the head of the pair to the other price with a new size puts
\* it behind the order already there and leaves its old neighbour alone
C21_Witness ==
    /\ call_ok
    /\ \E px \in DOMAIN ask_levels_ : \E qx \in DOMAIN ask_levels_ \ {px} :
          LET v == SideView(Book, "A")
          IN  /\ Len(v[px].chain) = 2
              /\ Len(v[qx].chain) = 1
              /\ v[px].chain[1].size = 1
              /\ LET r == modify_order(Book, v[px].chain[1].order_id, qx, 2)
                     w == SideView(r.book, "A")
                 IN  /\ r.ok
                     /\ w[px].chain = <<v[px].chain[2]>>
                     /\ w[qx].chain = <<v[qx].chain[1],
                                        [order_id |-> v[px].chain[1].order_id,
                                         price_raw |-> qx, size |-> 2]>>
                     /\ w[qx].total_size = v[qx].total_size + 2

\* C22: cancel_order of a resting id returns true, takes exactly that order
\* out of its level (the level goes when it was the last), drops the id from
\* the map, so that one order fewer is active, and leaves every other order
\* where it was, in the same FIFO order
C22_CancelUnlinksOnlyThatOrder ==
    \A id \in DOMAIN order_map_ :
        LET sd == RestingSide(Book, id)
            other == IF sd = "B" THEN "A" ELSE "B"
            r == cancel_order(Book, id)
        IN  /\ r.ok
            /\ SideView(r.book, sd) = ViewWithout(SideView(Book, sd), id)
            /\ SideView(r.book, other) = SideView(Book, other)
            /\ r.book.order_map_ = MapErase(order_map_, id)
            /\ get_active_orders(r.book) = get_active_orders(Book) - 1

\* after a successful call a level queues three orders: cancelling the middle
\* one leaves the first and the third, in that order, and two active orders
C22_Witness ==
    /\ call_ok
    /\ \E sd \in BookSides : \E px \in DOMAIN LevelsOf(sd) :
          LET ch == SideView(Book, sd)[px].chain
          IN  /\ Len(ch) = 3
              /\ LET r == cancel_order(Book, ch[2].order_id)
                 IN  /\ r.ok
                     /\ SideView(r.book, sd)[px].chain = <<ch[1], ch[3]>>
                     /\ SideView(r.book, sd)[px].order_count = 2
                     /\ get_active_orders(r.book) = 2

\* C23: for an id that is not resting, add_order followed by cancel_order of
\* that id gives the book back: the same id map, the same levels with the
\* same chains, totals and counts, the same slab and free list, and the same
\* top-10 (the statistics counters are not part of the model)
C23_AddThenCancelRestores ==
    \A id \in OrderIds \ DOMAIN order_map_ :
        \A px \in Prices : \A sz \in Sizes : \A side \in Sides : \A ts \in Timestamps :
            LET a == add_order(Book, id, px, sz, side, ts)
                c == cancel_order(a.book, id)
            IN  /\ a.ok <=> side \in BookSides
                /\ c.ok <=> a.ok
                /\ c.book.order_map_ = order_map_
                /\ c.book.bid_levels_ = bid_levels_
                /\ c.book.ask_levels_ = ask_levels_
                /\ \A sd \in BookSides : SideView(c.book, sd) = SideView(Book, sd)
                /\ c.book.pool_ = pool_
                /\ c.book.free_list_ = free_list_
                /\ c.book.heap_ = heap_
                /\ get_top10_snapshot(c.book).snapshot = get_top10_snapshot(Book).snapshot

\* the top-10 has been read and is current, a bid level holds one order of
\* size 1: adding order 3 of size 2 behind it changes the level and the
\* top-10, and cancelling order 3 brings both back
C23_Witness ==
    /\ cache_valid_
    /\ 3 \notin DOMAIN order_map_
    /\ \E px \in DOMAIN bid_levels_ :
          /\ bid_levels_[px].order_count = 1
          /\ bid_levels_[px].total_size = 1
          /\ LET a == add_order(Book, 3, px, 2, "B", 1)
                 c == cancel_order(a.book, 3)
             IN  /\ a.ok /\ c.ok
                 /\ SideView(a.book, "B")[px].total_size = 3
                 /\ get_top10_snapshot(a.book).snapshot # get_top10_snapshot(Book).snapshot
                 /\ SideView(c.book, "B") = SideView(Book, "B")
                 /\ get_top10_snapshot(c.book).snapshot = get_top10_snapshot(Book).snapshot

\* C24: get_top10_snapshot is idempotent and reads only: two calls in a row
\* copy out the same four arrays, and a call changes neither the id map nor
\* any level, order or slab cell (it may refresh the cache arrays)
C24_SnapshotIdempotentReadOnly ==
    LET r1 == get_top10_snapshot(Book)
        r2 == get_top10_snapshot(r1.book)
    IN  /\ r2.snapshot = r1.snapshot
        /\ r2.book = r1.book
        /\ r1.book.order_map_ = order_map_
        /\ r1.book.bid_levels_ = bid_levels_
        /\ r1.book.ask_levels_ = ask_levels_
        /\ r1.book.pool_ = pool_
        /\ r1.book.free_list_ = free_list_
        /\ r1.book.heap_ = heap_

\* the cache is stale and wrong about a book of two bid levels: the first
\* call refreshes it, the second finds it valid and copies the same arrays
C24_Witness ==
    /\ ~cache_valid_
    /\ cached_bid_prices_ # TopPrices(bid_levels_, "B")
    /\ Cardinality(DOMAIN bid_levels_) = 2
    /\ LET r1 == get_top10_snapshot(Book)
           r2 == get_top10_snapshot(r1.book)
       IN  /\ r1.book.cache_valid_
           /\ r1.snapshot.bid_px = TopPrices(bid_levels_, "B")
           /\ r2.snapshot = r1.snapshot

(***************************************************************************)
(* Properties of the emitter, the formatter and the driver loop            *)
(***************************************************************************)
\* the four top-10 arrays of a book, read off its levels
TopArrays(b) ==
    [bid_px |-> TopPrices(b.bid_levels_, "B"), bid_sz |-> TopSizes(b.bid_levels_, "B"),
     ask_px |-> TopPrices(b.ask_levels_, "A"), ask_sz |-> TopSizes(b.ask_levels_, "A")]

\* the four arrays of a snapshot
ArraysOf(snapshot) ==
    [bid_px |-> snapshot.bid_px, bid_sz |-> snapshot.bid_sz,
     ask_px |-> snapshot.ask_px, ask_sz |-> snapshot.ask_sz]

RECURSIVE Fields(_)
Fields(text) ==
    IF \A i \in DOMAIN text : text[i] # ","
    THEN <<text>>
    ELSE LET i == CHOOSE k \in DOMAIN text :
                      text[k] = "," /\ \A m \in 1..(k - 1) : text[m] # ","
         IN  <<SubSeq(text, 1, i - 1)>> \o Fields(SubSeq(text, i + 1, Len(text)))

\* the fields of an output row: the timestamp, then price and size of the
\* ten bid slots and of the ten ask slots
RowFields(line) == Fields(SubSeq(line, 1, Len(line) - 1))

\* a row whose twenty slots are all empty
ZeroFilled(line) ==
    /\ line # <<>>
    /\ line[Len(line)] = "\n"
    /\ Len(RowFields(line)) = 1 + 4 * TOP_N
    /\ \A k \in 2..(1 + 4 * TOP_N) : RowFields(line)[k] = <<>>

\* what one turn of the driver loop yields in the current state
Turn(e, visit) == reconstruct(Engine, Book, Manager, e, visit)

\* the number of times the emitter has been invoked
Invocations == snapshots_generated_ + snapshots_skipped_

\* C26 as stated: an N event never produces an output row
C26_NoopNeverEmits ==
    \A e \in DriverEventsOf("N") : Turn(e, <<>>).snapshot_line = <<>>

\* C26, amended: an N event is snapshot-worthy and leaves book and engine
\* alone; it produces a row exactly when the emitter has never been invoked
\* before, and that row is the zero-filled row of the empty book; once the
\* emitter has been invoked the book's top-10 is the snapshot emitted last,
\* so N is suppressed and only counted as skipped
C26_NoopEmitsOnlyAsFirstInvocation ==
    /\ has_previous_ => ArraysOf(previous_snapshot_) = TopArrays(Book)
    /\ \A e \in DriverEventsOf("N") :
          LET r == Turn(e, <<>>)
          IN  /\ r.should_snapshot
              /\ r.snapshot_line # <<>> <=> Invocations = 0
              /\ r.snapshot_line # <<>> =>
                    /\ order_map_ = EmptyMap
                    /\ ZeroFilled(r.snapshot_line)
                    /\ r.manager.snapshots_generated_ = 1
              /\ r.snapshot_line = <<>> =>
                    /\ r.manager.snapshots_skipped_ = snapshots_skipped_ + 1
                    /\ r.manager.previous_snapshot_ = previous_snapshot_
              /\ r.book.order_map_ = order_map_
              /\ \A sd \in BookSides : SideView(r.book, sd) = SideView(Book, sd)
              /\ r.engine = [Engine EXCEPT !.actions_processed_ = @ + 1]

\* a row showing a resting order has been written: an N event now is
\* worthy, suppressed and counted as skipped
C26_Witness ==
    /\ snapshots_generated_ > 0
    /\ order_map_ # EmptyMap
    /\ previous_snapshot_.bid_px # ZeroArray
    /\ \E e \in DriverEventsOf("N") :
          LET r == Turn(e, <<>>)
          IN  /\ r.should_snapshot
              /\ r.snapshot_line = <<>>
              /\ r.manager.snapshots_skipped_ = snapshots_skipped_ + 1

\* C27 as stated: every R after the first empties the book and has a
\* zero-filled row written for it
C27_LaterClearEmitsZeroRow ==
    first_clear_seen_ =>
        \A e \in DriverEventsOf("R") : \A visit \in IterationOrders(Book) :
            LET r == Turn(e, visit)
            IN  /\ r.book.order_map_ = EmptyMap
                /\ ZeroFilled(r.snapshot_line)

\* C27, amended: every R after the first empties the book and is
\* snapshot-worthy; a row is written for it exactly when the emitter has
\* never been invoked before or the snapshot emitted last showed a level, and
\* that row is zero-filled; when the row written last was zero-filled
\* already, the R is suppressed
C27_LaterClearEmitsZeroRowIfChanged ==
    first_clear_seen_ =>
        \A e \in DriverEventsOf("R") : \A visit \in IterationOrders(Book) :
            LET r == Turn(e, visit)
            IN  /\ r.should_snapshot
                /\ r.book.order_map_ = EmptyMap
                /\ r.book.bid_levels_ = EmptyMap
                /\ r.book.ask_levels_ = EmptyMap
                /\ r.snapshot_line # <<>> <=>
                      (Invocations = 0 \/ ArraysOf(previous_snapshot_) # ArraysOf(MBPSnapshot))
                /\ r.snapshot_line # <<>> =>
                      /\ ZeroFilled(r.snapshot_line)
                      /\ r.snapshot_line =
                            format_snapshot([MBPSnapshot EXCEPT !.timestamp_ns = e.timestamp_ns])

\* the first R has been seen and the row written last shows a bid and an
\* ask: a further R empties the book and writes a zero-filled row, and the R
\* after that one is suppressed
C27_Witness ==
    /\ first_clear_seen_
    /\ previous_snapshot_.bid_px # ZeroArray
    /\ previous_snapshot_.ask_px # ZeroArray
    /\ \E e \in DriverEventsOf("R") : \E visit \in IterationOrders(Book) :
          LET r == Turn(e, visit)
              r2 == reconstruct(r.engine, r.book, r.manager, e, <<>>)
          IN  /\ ZeroFilled(r.snapshot_line)
              /\ r.book.order_map_ = EmptyMap
              /\ r2.should_snapshot
              /\ r2.snapshot_line = <<>>

\* the price and the size of slot i (1..10 bids, 11..20 asks) of a snapshot
SlotOf(snapshot, i) ==
    IF i <= TOP_N
    THEN [px |-> snapshot.bid_px[i], sz |-> snapshot.bid_sz[i]]
    ELSE [px |-> snapshot.ask_px[i - TOP_N], sz |-> snapshot.ask_sz[i - TOP_N]]

\* C28: in the row written last, a slot whose price is 0 has both its
\* fields empty, and a slot whose price is not 0 has the decimal text of its
\* size as size field (price 0 and total size 0 included)
C28_EmptySlotIffPriceZero ==
    cout # <<>> =>
        \A i \in 1..(2 * TOP_N) :
            LET slot == SlotOf(previous_snapshot_, i)
                price_field == RowFields(cout)[2 * i]
                size_field == RowFields(cout)[2 * i + 1]
            IN  /\ slot.px = 0 => (price_field = <<>> /\ size_field = <<>>)
                /\ slot.px # 0 => size_field = to_string(slot.sz)

\* the exact decimal text of price_raw / 100
ExactDecimal(price_raw) ==
    LET a == IF price_raw < 0 THEN -price_raw ELSE price_raw
    IN  (IF price_raw < 0 THEN <<"-">> ELSE <<>>)
        \o Digits(a \div 100)
        \o (IF a % 100 = 0 THEN <<>>
            ELSE <<".", DigitChars[((a % 100) \div 10) + 1], DigitChars[(a % 10) + 1]>>)

\* C29: in the row written last, the price field of every slot whose price
\* is not 0, negative prices included, is the exact decimal text of
\* price_raw / 100, and parse_price reads price_raw back from it
C29_PriceTextRoundTrips ==
    cout # <<>> =>
        \A i \in 1..(2 * TOP_N) :
            LET slot == SlotOf(previous_snapshot_, i)
                price_field == RowFields(cout)[2 * i]
            IN  slot.px # 0 =>
                    /\ price_field = ExactDecimal(slot.px)
                    /\ parse_price(price_field) = slot.px

\* neither side is empty and the best bid is above the best ask
Crossed(b) ==
    /\ DOMAIN b.bid_levels_ # {}
    /\ DOMAIN b.ask_levels_ # {}
    /\ get_best_bid(b)[1] > get_best_ask(b)[1]

\* the event asks for a bid above the best ask or for an ask below the best
\* bid of the current book: an A by its side and price, an M by the side its
\* order rests on and the new price
Crossing(e) ==
    LET sd == IF e.action = "A" THEN e.side
              ELSE IF e.action = "M" /\ e.order_id \in DOMAIN order_map_
                   THEN RestingSide(Book, e.order_id)
              ELSE "N"
    IN  \/ sd = "B" /\ DOMAIN ask_levels_ # {} /\ e.price_raw > get_best_ask(Book)[1]
        \/ sd = "A" /\ DOMAIN bid_levels_ # {} /\ e.price_raw < get_best_bid(Book)[1]

C31_TradeFillCancelAlwaysExecutes ==
    \A t \in EventsOf("T") : \A f \in EventsOf("F") :
        f.order_id = t.order_id =>
            LET r1 == process_event(Engine, Book, t, <<>>)
                r2 == process_event(r1.engine, r1.book, f, <<>>)
                x == execute_trade(Book, t.price_raw, t.size, t.side)
            IN  /\ r1.book = Book
                /\ r2.book = Book
                /\ r2.engine.trade_state_ = "FILL_RECEIVED"
                /\ \A c \in EventsOf("C") :
                      LET r3 == process_event(r2.engine, r2.book, c, <<>>)
                      IN  /\ r3.book = x.book
                          /\ r3.ret = x.ok
                          /\ r3.engine.trade_state_ = "IDLE"
                          /\ r3.engine.pending_trade_ = Nullopt
                          /\ r3.engine.trades_aggregated_ =
                                trades_aggregated_ + (IF x.ok THEN 1 ELSE 0)
                          /\ r3.engine.errors_encountered_ =
                                errors_encountered_ + (IF x.ok THEN 0 ELSE 1)

\* a second F has been counted as an error and left the engine in
\* FILL_RECEIVED with an older trade pending: a new T, its F and a C execute
\* the new trade against the resting order and end in IDLE
C31_Witness ==
    /\ trade_state_ = "FILL_RECEIVED"
    /\ errors_encountered_ > 0
    /\ order_map_ # EmptyMap
    /\ \E t \in EventsOf("T") : \E f \in EventsOf("F") : \E c \in EventsOf("C") :
          LET r1 == process_event(Engine, Book, t, <<>>)
              r2 == process_event(r1.engine, r1.book, f, <<>>)
              r3 == process_event(r2.engine, r2.book, c, <<>>)
          IN  /\ f.order_id = t.order_id
              /\ <<t.price_raw, t.size, t.side>> #
                    <<pending_trade_[1].price_raw, pending_trade_[1].size, pending_trade_[1].side>>
              /\ r3.ret
              /\ r3.book.order_map_ = EmptyMap
              /\ r3.engine.trade_state_ = "IDLE"
              /\ r3.engine.trades_aggregated_ = trades_aggregated_ + 1

\* C32: every resting order is found in a chain of exactly one side, and
\* cancel_order and modify_order work on that side: the level map of the
\* opposite side, with the level at the order's own price when there is
\* one, is left as it was, and the order leaves, or changes on, its own side
C32_ActsOnRestingSide ==
    \A id \in DOMAIN order_map_ :
        LET p == order_map_[id]
            InChain(sd) == \E px \in DOMAIN LevelsOf(sd) :
                              \E i \in DOMAIN ChainOf(<<sd, px>>) : ChainOf(<<sd, px>>)[i] = p
            sd == IF InChain("B") THEN "B" ELSE "A"
            other == IF sd = "B" THEN "A" ELSE "B"
            c == cancel_order(Book, id)
        IN  /\ InChain("B") # InChain("A")
            /\ determine_side(Book, p) = sd
            /\ c.ok
            /\ SideLevels(c.book, other) = SideLevels(Book, other)
            /\ SideView(c.book, other) = SideView(Book, other)
            /\ SideView(c.book, sd) = ViewWithout(SideView(Book, sd), id)
            /\ \A px \in Prices : \A sz \in Sizes :
                  LET m == modify_order(Book, id, px, sz)
                  IN  /\ m.ok
                      /\ SideLevels(m.book, other) = SideLevels(Book, other)
                      /\ SideView(m.book, other) = SideView(Book, other)
                      /\ \E i \in DOMAIN SideView(m.book, sd)[px].chain :
                            SideView(m.book, sd)[px].chain[i] =
                                [order_id |-> id, price_raw |-> px, size |-> sz]

\* a locked book: bid and ask both have a level at price 1, one order each.
\* Cancelling the ask order removes the ask level and keeps the bid level;
\* resizing it changes the ask level's total and not the bid level's
C32_Witness ==
    /\ call_ok
    /\ 1 \in DOMAIN bid_levels_
    /\ 1 \in DOMAIN ask_levels_
    /\ bid_levels_[1].order_count = 1
    /\ ask_levels_[1].order_count = 1
    /\ ask_levels_[1].total_size = 1
    /\ LET id == SideView(Book, "A")[1].chain[1].order_id
           c == cancel_order(Book, id)
           m == modify_order(Book, id, 1, 2)
       IN  /\ c.ok /\ m.ok
           /\ 1 \notin DOMAIN c.book.ask_levels_
           /\ c.book.bid_levels_ = bid_levels_
           /\ m.book.ask_levels_[1].total_size = 2
           /\ m.book.bid_levels_ = bid_levels_

\* C33: a trade is pending exactly in TRADE_RECEIVED and FILL_RECEIVED, and
\* a pending trade carries the id kept in last_trade_id_, so that handle_fill
\* comparing an F with last_trade_id_ compares it with the pending trade
C33_PendingIffInSequence ==
    /\ HasValue(pending_trade_) <=> trade_state_ \in {"TRADE_RECEIVED", "FILL_RECEIVED"}
    /\ HasValue(pending_trade_) => pending_trade_[1].trade_id = last_trade_id_
    /\ \A f \in EventsOf("F") :
          trade_state_ = "TRADE_RECEIVED" =>
              (Outcome(f, <<>>).engine.trade_state_ = "FILL_RECEIVED"
                  <=> f.order_id = pending_trade_[1].trade_id)

\* a fill that did not match has been counted and a later trade with id 2 has
\* been matched by its fill: the trade pending in FILL_RECEIVED has id 2, and
\* so has last_trade_id_
C33_Witness ==
    /\ trade_state_ = "FILL_RECEIVED"
    /\ errors_encountered_ = 1
    /\ actions_processed_ = 4
    /\ HasValue(pending_trade_)
    /\ pending_trade_[1].trade_id = 2
    /\ pending_trade_[1].is_aggressor_fill
    /\ last_trade_id_ = 2

\* C34: after every turn of the driver loop either no row has been written
\* and the book is empty, or the row written last is the row of the book as
\* it is now: its twenty slots are the book's current top-10 (under the
\* timestamp of the event it was written for).  This is so because an event
\* that changes a side of the book is always reported snapshot-worthy.
C34_LastRowShowsBook ==
    /\ IF cout = <<>>
       THEN /\ ~has_previous_
            /\ order_map_ = EmptyMap
            /\ bid_levels_ = EmptyMap
            /\ ask_levels_ = EmptyMap
       ELSE /\ has_previous_
            /\ ArraysOf(previous_snapshot_) = TopArrays(Book)
            /\ cout = format_snapshot([timestamp_ns |-> previous_snapshot_.timestamp_ns,
                                       bid_px |-> TopArrays(Book).bid_px,
                                       bid_sz |-> TopArrays(Book).bid_sz,
                                       ask_px |-> TopArrays(Book).ask_px,
                                       ask_sz |-> TopArrays(Book).ask_sz])
    /\ \A e \in DriverEvents :
          \A visit \in (IF e.action = "R" THEN IterationOrders(Book) ELSE {<<>>}) :
              LET r == Outcome(e, visit)
              IN  (\/ SideView(r.book, "B") # SideView(Book, "B")
                   \/ SideView(r.book, "A") # SideView(Book, "A")
                   \/ DOMAIN r.book.order_map_ # DOMAIN order_map_) => r.ret

\* rows have been written, an invocation has been suppressed and an event
\* has failed since; both sides of the book hold a level, the row written
\* last shows them, and a modify moving a bid to another price is
\* snapshot-worthy
C34_Witness ==
    /\ cout # <<>>
    /\ snapshots_skipped_ > 0
    /\ errors_encountered_ > 0
    /\ bid_levels_ # EmptyMap
    /\ ask_levels_ # EmptyMap
    /\ ArraysOf(previous_snapshot_) = TopArrays(Book)
    /\ \E e \in DriverEventsOf("M") :
          LET r == Outcome(e, <<>>)
          IN  /\ r.ret
              /\ DOMAIN r.book.bid_levels_ # DOMAIN bid_levels_

\* the events that may come between T and F, and between F and C, without
\* disturbing the sequence: A, M and N in TRADE_RECEIVED and FILL_RECEIVED,
\* and a plain C in TRADE_RECEIVED
Interleaved ==
    EventsOf("A") \cup EventsOf("M") \cup EventsOf("N")
        \cup (IF trade_state_ = "TRADE_RECEIVED" THEN EventsOf("C") ELSE {})

\* C35: while a trade is pending, an interleaved event does to the book,
\* returns and counts what it would in IDLE, and leaves trade state, pending
\* trade and last_trade_id_ as they are.  So after it the matching F still
\* moves TRADE_RECEIVED to FILL_RECEIVED, and the C still executes the trade
\* buffered from the T, against the book as the interleaved events left it.
C35_InterleavedEventsKeepSequence ==
    trade_state_ \in {"TRADE_RECEIVED", "FILL_RECEIVED"} =>
        \A e \in Interleaved :
            LET r == Outcome(e, <<>>)
                idle == process_event([Engine EXCEPT !.trade_state_ = "IDLE",
                                                     !.pending_trade_ = Nullopt],
                                      Book, e, <<>>)
                t == pending_trade_[1]
            IN  /\ r.book = idle.book
                /\ r.ret = idle.ret
                /\ r.engine.errors_encountered_ = idle.engine.errors_encountered_
                /\ r.engine.trades_aggregated_ = trades_aggregated_
                /\ r.engine.trade_state_ = trade_state_
                /\ r.engine.pending_trade_ = pending_trade_
                /\ r.engine.last_trade_id_ = last_trade_id_
                /\ trade_state_ = "TRADE_RECEIVED" =>
                      \A f \in EventsOf("F") :
                          f.order_id = t.trade_id =>
                              LET r2 == process_event(r.engine, r.book, f, <<>>)
                              IN  /\ r2.engine.trade_state_ = "FILL_RECEIVED"
                                  /\ r2.engine.pending_trade_ =
                                        <<[t EXCEPT !.is_aggressor_fill = TRUE]>>
                                  /\ r2.book = r.book
                /\ trade_state_ = "FILL_RECEIVED" =>
                      \A c \in DriverEventsOf("C") :
                          LET r3 == process_event(r.engine, r.book, c, <<>>)
                              x == execute_trade(r.book, t.price_raw, t.size, t.side)
                          IN  /\ r3.book = x.book
                              /\ r3.ret = x.ok
                              /\ r3.engine.trade_state_ = "IDLE"
                              /\ r3.engine.pending_trade_ = Nullopt
                              /\ r3.engine.trades_aggregated_ =
                                    trades_aggregated_ + (IF x.ok THEN 1 ELSE 0)

\* a trade is buffered while the book is empty; an A arriving now rests the
\* order the trade is for, the sequence goes on, and after the matching F
\* the C executes the buffered trade against that order and empties the book
C35_Witness ==
    /\ trade_state_ = "TRADE_RECEIVED"
    /\ order_map_ = EmptyMap
    /\ \E e \in DriverEventsOf("A") : \E f \in DriverEventsOf("F") : \E c \in DriverEventsOf("C") :
          LET r == Outcome(e, <<>>)
              r2 == process_event(r.engine, r.book, f, <<>>)
              r3 == process_event(r2.engine, r2.book, c, <<>>)
          IN  /\ r.ret
              /\ r.book.order_map_ # EmptyMap
              /\ r.engine.trade_state_ = "TRADE_RECEIVED"
              /\ r2.engine.trade_state_ = "FILL_RECEIVED"
              /\ r3.ret
              /\ r3.book.order_map_ = EmptyMap
              /\ r3.engine.trades_aggregated_ = trades_aggregated_ + 1

\* the cells the order map points to
MappedCells(b) == {b.order_map_[id] : id \in DOMAIN b.order_map_}

\* C36: the order map gives every resting order a cell of its own; the free
\* list holds slab slots only, none twice, and none that the order map or a
\* level chain refers to.  Removing an order that rests in a slab slot, by
\* cancel or by a trade, pushes the slot on the free list, so that the slot
\* released last is the one the next allocation hands out; removing an order
\* that rests on the heap gives the cell back to the heap and leaves the free
\* list alone.  After clear() all slab slots are free and the heap holds
\* nothing.
C36_SlotAccounting ==
    LET free == SeqToSet(free_list_)
        chained == UNION {SeqToSet(ChainOf(k)) : k \in LevelKeys}
    IN  /\ \A i, j \in DOMAIN order_map_ : i # j => order_map_[i] # order_map_[j]
        /\ free \subseteq PoolPtrs
        /\ free \cap (MappedCells(Book) \cup chained) = {}
        /\ \A i, j \in DOMAIN free_list_ : i # j => free_list_[i] # free_list_[j]
        /\ \A id \in DOMAIN order_map_ :
              LET p == order_map_[id]
                  c == cancel_order(Book, id).book
              IN  IF p \in PoolPtrs
                  THEN /\ c.free_list_ = Append(free_list_, p)
                       /\ c.heap_ = heap_
                       /\ OrderPool_allocate(c).ptr = p
                       /\ \A nid \in OrderIds \ DOMAIN c.order_map_ : \A sd \in {"B", "A"} :
                             add_order(c, nid, 1, 1, sd, 1).book.order_map_[nid] = p
                  ELSE /\ c.free_list_ = free_list_
                       /\ c.heap_ = heap_ \ {p}
        /\ \A px \in Prices : \A sz \in TradeSizes : \A sd \in {"B", "A"} :
              LET x == execute_trade(Book, px, sz, sd).book
                  released == MappedCells(Book) \ MappedCells(x)
                  n == Len(free_list_)
              IN  /\ Len(x.free_list_) = n + Cardinality(released \cap PoolPtrs)
                  /\ SubSeq(x.free_list_, 1, n) = free_list_
                  /\ SeqToSet(x.free_list_) = free \cup (released \cap PoolPtrs)
                  /\ x.heap_ = heap_ \ released
                  /\ x.free_list_ # free_list_ =>
                        OrderPool_allocate(x).ptr = x.free_list_[Len(x.free_list_)]
        /\ \A visit \in IterationOrders(Book) :
              LET c == clear(Book, visit)
              IN  /\ SeqToSet(c.free_list_) = PoolPtrs
                  /\ Len(c.free_list_) = POOL_SIZE
                  /\ c.heap_ = {}

\* the slab was exhausted and an order allocated on the heap; both slab
\* orders have since been removed, the first slot last, so the free list is
\* the initial one reversed.  Cancelling the heap order leaves the free list
\* alone and empties the heap, a trade removes it likewise, and an order
\* added now takes slot 1, the slot released last.
C36_Witness ==
    /\ heap_ # {}
    /\ free_list_ = [i \in 1..POOL_SIZE |-> POOL_SIZE + 1 - i]
    /\ \E id \in DOMAIN order_map_ :
          /\ order_map_[id] \in HeapPtrs
          /\ cancel_order(Book, id).book.free_list_ = free_list_
          /\ cancel_order(Book, id).book.heap_ = {}
          /\ \E sd \in {"B", "A"} :
                LET x == execute_trade(Book, pool_[order_map_[id]].price_raw, 2, sd)
                IN  x.ok /\ x.book.heap_ = {} /\ x.book.free_list_ = free_list_
          /\ \E nid \in OrderIds \ DOMAIN order_map_ :
                add_order(Book, nid, 1, 1, "B", 1).book.order_map_[nid] = 1


====
